---- MODULE Spec2Model ----
(***************************************************************************)
(* Model of the NSO-to-OpenConfig translators of nso-oc-services:          *)
(*   - package_nso_to_oc/xe/xe_acls.py   (ACL translation pass)            *)
(*   - package_nso_to_oc/xe/xe_ospfv2.py (OSPF network-statement binding)  *)
(*                                                                         *)
(* Python dicts are functions over a set of string keys (a key that is     *)
(* absent from the dict is absent from the DOMAIN), Python lists are       *)
(* sequences, and a rule string is the sequence of its whitespace          *)
(* separated tokens.  A raised exception is an explicit outcome.           *)
(***************************************************************************)
EXTENDS Integers, Sequences, FiniteSets, TLC

(***************************************************************************)
(* Generic dict and list helpers.                                          *)
(***************************************************************************)
Has(d, k) == k \in DOMAIN d

Get(d, k, default) == IF k \in DOMAIN d THEN d[k] ELSE default

Put(d, k, v) == [x \in (DOMAIN d) \cup {k} |-> IF x = k THEN v ELSE d[x]]

Del(d, k) == [x \in (DOMAIN d) \ {k} |-> d[x]]

EmptyDict == [x \in {} |-> 0]

\* F applied to the value of v, with v evaluated once (a local variable of the source).
Bind(v, F(_)) == CHOOSE y \in {F(x) : x \in {v}} : TRUE

\* Python's None, as stored in a list of dicts.
None == [none |-> TRUE]

RECURSIVE SeqsUpTo(_, _)
SeqsUpTo(S, n) ==
    IF n = 0 THEN {<<>>}
    ELSE LET shorter == SeqsUpTo(S, n - 1)
         IN shorter \cup {Append(s, x) : s \in {t \in shorter : Len(t) = n - 1}, x \in S}

(***************************************************************************)
(* Tokens of a rule string.  A keyword token carries its text in k; a      *)
(* token made of digits carries its value; a dotted quad carries its four  *)
(* octets.                                                                 *)
(***************************************************************************)
Kw(s) == [k |-> s, v |-> <<>>]

Num(n) == [k |-> "#num", v |-> <<n>>]

Ip(a, b, c, d) == [k |-> "#addr", v |-> <<a, b, c, d>>]

IsDigit(tok) == tok.k = "#num"

IntOf(tok) == tok.v[1]

\* 0-based indexing into rule_parts, as the source does.
At(parts, i) == parts[i + 1]

(***************************************************************************)
(* xe_acls.py module constants.                                            *)
(***************************************************************************)
ACL_STD_TYPE == "ACL_IPV4_STANDARD"

ACL_EXT_TYPE == "ACL_IPV4"

protocols_oc_to_xe ==
    [p \in {"icmp", "igmp", "ipnip", "tcp", "udp", "gre", "ahp", "pim"} |->
        CASE p = "icmp" -> "IP_ICMP"
          [] p = "igmp" -> "IP_IGMP"
          [] p = "ipnip" -> "IP_IN_IP"
          [] p = "tcp" -> "IP_TCP"
          [] p = "udp" -> "IP_UDP"
          [] p = "gre" -> "IP_GRE"
          [] p = "ahp" -> "IP_AUTH"
          [] p = "pim" -> "IP_PIM"]

actions_xe_to_oc == [a \in {"permit", "deny"} |-> IF a = "permit" THEN "ACCEPT" ELSE "REJECT"]

port_operators == {"range", "eq", "lt", "gt", "neq"}

MaxPort == 65535

\* socket.getservbyname: the service names the host's table resolves.
ServiceTable == [s \in {"www", "bgp"} |-> IF s = "www" THEN 80 ELSE 179]

\* StandardAcl / ExtendedAcl constructor attributes.
RuleListKey(acl_type) ==
    IF acl_type = ACL_STD_TYPE THEN "std-access-list-rule" ELSE "ext-access-list-rule"

Ipv4Key(acl_type) ==
    IF acl_type = ACL_STD_TYPE THEN "openconfig-acl-ext:ipv4" ELSE "openconfig-acl:ipv4"

ConfigKey(acl_type) ==
    IF acl_type = ACL_STD_TYPE THEN "openconfig-acl-ext:config" ELSE "openconfig-acl:config"

SrcAddrKey(acl_type) ==
    IF acl_type = ACL_STD_TYPE THEN "openconfig-acl-ext:source-address"
    ELSE "openconfig-acl:source-address"

DstAddrKey == "openconfig-acl:destination-address"

(***************************************************************************)
(* Dotted quads as 32 bits, most significant first (format(o, "08b")).     *)
(***************************************************************************)
OctetBits(o) == [i \in 1..8 |-> (o \div (2 ^ (8 - i))) % 2]

RECURSIVE get_binary_str(_)
get_binary_str(octets) ==
    IF octets = <<>> THEN <<>>
    ELSE OctetBits(Head(octets)) \o get_binary_str(Tail(octets))

(***************************************************************************)
(* ipaddress.IPv4Network((0, mask)).prefixlen; -1 stands for a raised      *)
(* NetmaskValueError.  A dotted mask is first read as a netmask and, when  *)
(* that fails, as a hostmask (its complement); digits are a prefix length. *)
(***************************************************************************)
RECURSIVE TrailingZeroes(_)
TrailingZeroes(bits) ==
    IF bits = <<>> THEN 0
    ELSE IF bits[Len(bits)] = 1 THEN 0
    ELSE 1 + TrailingZeroes(SubSeq(bits, 1, Len(bits) - 1))

\* _prefix_from_ip_int: the prefix length, or -1 when ones and zeroes mix.
PrefixFromIpInt(bits) ==
    LET prefixlen == Len(bits) - TrailingZeroes(bits)
    IN IF \A i \in 1..prefixlen : bits[i] = 1 THEN prefixlen ELSE -1

\* A reading of the mask token as a netmask only, with no hostmask fallback.
PrefixLenAsNetmask(hostmask) ==
    IF hostmask.k = "#num"
    THEN IF IntOf(hostmask) <= 32 THEN IntOf(hostmask) ELSE -1
    ELSE IF hostmask.k = "#addr" THEN PrefixFromIpInt(get_binary_str(hostmask.v))
    ELSE -1

PrefixLen(hostmask) ==
    IF hostmask.k = "#num"
    THEN IF IntOf(hostmask) <= 32 THEN IntOf(hostmask) ELSE -1
    ELSE IF hostmask.k = "#addr"
    THEN LET bits == get_binary_str(hostmask.v)
             asNetmask == PrefixFromIpInt(bits)
         IN IF asNetmask >= 0 THEN asNetmask
            ELSE PrefixFromIpInt([i \in 1..Len(bits) |-> 1 - bits[i]])
    ELSE -1

(***************************************************************************)
(* BaseAcl: the rule parser.  Every helper returns the record              *)
(*   [ok, idx, entry, notes]                                               *)
(* where ok = FALSE stands for a raised exception, idx is current_index,   *)
(* entry the (mutated) acl-entry and notes the (mutated) acls_notes.       *)
(***************************************************************************)
Ret(ok, idx, entry, notes) == [ok |-> ok, idx |-> idx, entry |-> entry, notes |-> notes]

\* BaseAcl.__add_acl_entry_note
AddAclEntryNote(notes, acl_name, original_entry, note) ==
    Append(notes, [acl |-> acl_name, entry |-> original_entry, note |-> note])

\* BaseAcl.__get_ipv4_config: the entry with the ipv4/config containers present.
GetIpv4Config(entry, acl_type) ==
    LET e1 == IF ~Has(entry, Ipv4Key(acl_type))
              THEN Put(entry, Ipv4Key(acl_type), EmptyDict) ELSE entry
    IN IF ~Has(e1[Ipv4Key(acl_type)], ConfigKey(acl_type))
       THEN [e1 EXCEPT ![Ipv4Key(acl_type)] = Put(@, ConfigKey(acl_type), EmptyDict)]
       ELSE e1

\* self.__get_ipv4_config(entry)[key] = val
SetIpv4(entry, acl_type, key, val) ==
    [GetIpv4Config(entry, acl_type) EXCEPT
        ![Ipv4Key(acl_type)][ConfigKey(acl_type)] = Put(@, key, val)]

\* BaseAcl.__get_transport_config
GetTransportConfig(entry) ==
    LET e1 == IF ~Has(entry, "openconfig-acl:transport")
              THEN Put(entry, "openconfig-acl:transport", EmptyDict) ELSE entry
    IN IF ~Has(e1["openconfig-acl:transport"], "openconfig-acl:config")
       THEN [e1 EXCEPT !["openconfig-acl:transport"] = Put(@, "openconfig-acl:config", EmptyDict)]
       ELSE e1

\* self.__get_transport_config(entry)[key] = val
SetTransport(entry, key, val) ==
    [GetTransportConfig(entry) EXCEPT
        !["openconfig-acl:transport"]["openconfig-acl:config"] = Put(@, key, val)]

\* Values of source-port / destination-port: "ANY", an int, or "lo..hi".
PortAny == [kind |-> "ANY"]

PortInt(n) == [kind |-> "int", n |-> n]

PortRange(lo, hi) == [kind |-> "range", lo |-> lo, hi |-> hi]

\* Values of source-address / destination-address: "<ip>/<prefixlen>".
Cidr(ip, len) == [ip |-> ip, len |-> len]

PortKey(is_source) ==
    IF is_source THEN "openconfig-acl:source-port" ELSE "openconfig-acl:destination-port"

\* BaseAcl.__set_protocol
SetProtocol(acl_type, acl_name, entry, rule_parts, notes) ==
    IF acl_type = ACL_STD_TYPE THEN Ret(TRUE, 2, entry, notes)
    ELSE IF Len(rule_parts) <= 2 THEN Ret(FALSE, 0, entry, notes)   \* IndexError
    ELSE IF At(rule_parts, 2).k # "ip"
    THEN IF At(rule_parts, 2).k \notin DOMAIN protocols_oc_to_xe
         THEN Ret(FALSE, 0, entry,
                  AddAclEntryNote(notes, acl_name, rule_parts,
                                  "protocol does not exist in expected list of protocols"))
         ELSE Ret(TRUE, 3,
                  SetIpv4(entry, acl_type, "openconfig-acl:protocol",
                          protocols_oc_to_xe[At(rule_parts, 2).k]),
                  notes)
    ELSE Ret(TRUE, 3, entry, notes)

\* BaseAcl.__set_ip_and_network
SetIpAndNetwork(acl_type, rule_parts, current_index, entry, is_source, notes) ==
    LET ip == At(rule_parts, current_index)
        key == IF is_source THEN SrcAddrKey(acl_type) ELSE DstAddrKey
    IN IF ip.k = "any"
       THEN Ret(TRUE, current_index + 1,
                SetIpv4(entry, acl_type, key, Cidr(Ip(0, 0, 0, 0), 0)), notes)
       ELSE IF Len(rule_parts) <= current_index + 1
       THEN Ret(FALSE, current_index, entry, notes)                 \* IndexError
       ELSE IF ip.k = "host"
       THEN Ret(TRUE, current_index + 2,
                SetIpv4(entry, acl_type, key, Cidr(At(rule_parts, current_index + 1), 32)),
                notes)
       ELSE LET prefixlen == PrefixLen(At(rule_parts, current_index + 1))
            IN IF prefixlen < 0
               THEN Ret(FALSE, current_index, entry, notes)         \* NetmaskValueError
               ELSE Ret(TRUE, current_index + 2,
                        SetIpv4(entry, acl_type, key, Cidr(ip, prefixlen)), notes)

\* BaseAcl.__set_tcp_flags
SetTcpFlags(rule_parts, current_index, entry, notes) ==
    IF Len(rule_parts) <= current_index
       \/ At(rule_parts, current_index).k \notin {"ack", "rst", "established"}
    THEN Ret(TRUE, current_index, entry, notes)
    ELSE LET flag == At(rule_parts, current_index).k
             flags == CASE flag = "ack" -> <<"TCP_ACK">>
                        [] flag = "rst" -> <<"TCP_RST">>
                        [] flag = "established" -> <<"TCP_ACK", "TCP_RST">>
         IN Ret(TRUE, current_index + 1,
                SetTransport(entry, "openconfig-acl:tcp-flags", flags), notes)

\* BaseAcl.__set_port
SetPort(acl_name, rule_parts, current_index, entry, is_source, notes) ==
    IF Len(rule_parts) <= current_index
       \/ At(rule_parts, current_index).k \notin port_operators
    THEN \* the end of the rule, or no port given
         IF is_source
         THEN Ret(TRUE, current_index, SetTransport(entry, PortKey(TRUE), PortAny), notes)
         ELSE SetTcpFlags(rule_parts, current_index,
                          SetTransport(entry, PortKey(FALSE), PortAny), notes)
    ELSE IF Len(rule_parts) <= current_index + 1
    THEN Ret(FALSE, current_index, entry, notes)                    \* IndexError
    ELSE LET op == At(rule_parts, current_index).k
             raw_port == At(rule_parts, current_index + 1)
             resolvable == IsDigit(raw_port) \/ raw_port.k \in DOMAIN ServiceTable
             current_port == IF IsDigit(raw_port) THEN IntOf(raw_port)
                             ELSE ServiceTable[raw_port.k]
         IN IF ~resolvable
            THEN Ret(FALSE, current_index, entry,
                     AddAclEntryNote(notes, acl_name, rule_parts,
                                     "Unable to convert service to a port number"))
            ELSE IF op = "range"
            THEN IF Len(rule_parts) <= current_index + 2
                 THEN Ret(FALSE, current_index, entry, notes)       \* IndexError
                 ELSE LET e1 == SetTransport(entry, PortKey(is_source),
                                    PortRange(Num(current_port), At(rule_parts, current_index + 2)))
                      IN IF is_source
                         THEN Ret(TRUE, current_index, e1, notes)
                         ELSE SetTcpFlags(rule_parts, current_index + 3, e1, notes)
            ELSE IF op = "neq"
            THEN Ret(FALSE, current_index, entry,
                     AddAclEntryNote(notes, acl_name, rule_parts,
                                     "XE ACL use of 'neq' port operator does not have an OC equivalent."))
            ELSE LET port == CASE op = "lt" -> PortRange(Num(0), Num(current_port - 1))
                               [] op = "gt" -> PortRange(Num(current_port + 1), Num(MaxPort))
                               [] op = "eq" -> PortInt(current_port)
                     e1 == SetTransport(entry, PortKey(is_source), port)
                 IN IF is_source
                    THEN Ret(TRUE, current_index + 2, e1, notes)
                    ELSE LET f == SetTcpFlags(rule_parts, current_index + 2, e1, notes)
                         IN Ret(TRUE, f.idx + 2, f.entry, notes)

\* BaseAcl.__set_ip_and_port
SetIpAndPort(acl_type, acl_name, rule_parts, current_index, entry, is_source, notes) ==
    IF Len(rule_parts) <= current_index
    THEN Ret(TRUE, current_index, entry, notes)
    ELSE Bind(SetIpAndNetwork(acl_type, rule_parts, current_index, entry, is_source, notes),
              LAMBDA a :
                IF ~a.ok THEN a
                ELSE IF At(rule_parts, 2).k \in {"tcp", "udp"}
                THEN SetPort(acl_name, rule_parts, a.idx, a.entry, is_source, a.notes)
                ELSE a)

(***************************************************************************)
(* BaseAcl.__set_rule_parts.  The result record is                         *)
(*   [ret, entry, notes, emitted]                                          *)
(* ret is "True", "False", "None" (the bare return of an empty rule) or    *)
(* "raise" (an exception left the method); emitted tells whether the entry *)
(* was appended to the acl-set's acl-entry list.                           *)
(***************************************************************************)
RuleRet(ret, entry, notes) ==
    [ret |-> ret, entry |-> entry, notes |-> notes, emitted |-> (ret = "True")]

LogAction(rule_parts, current_index) ==
    IF Len(rule_parts) > current_index /\ At(rule_parts, current_index).k = "log-input"
    THEN "LOG_SYSLOG" ELSE "LOG_NONE"

WithLogAction(entry, rule_parts, current_index) ==
    [entry EXCEPT !["openconfig-acl:actions"]["openconfig-acl:config"] =
        Put(@, "openconfig-acl:log-action", LogAction(rule_parts, current_index))]

\* The entry as built before the try block (lines 119-126).
NewEntry(seq_id, action) ==
    [x \in {"openconfig-acl:sequence-id", "openconfig-acl:config", "openconfig-acl:actions"} |->
        CASE x = "openconfig-acl:sequence-id" -> seq_id
          [] x = "openconfig-acl:config" -> [y \in {"openconfig-acl:sequence-id"} |-> seq_id]
          [] x = "openconfig-acl:actions" ->
                [y \in {"openconfig-acl:config"} |->
                    [z \in {"openconfig-acl:forwarding-action"} |-> actions_xe_to_oc[action]]]]

SetRuleParts(acl_type, acl_name, rule_parts, notes) ==
    IF Len(rule_parts) < 1 THEN RuleRet("None", EmptyDict, notes)
    ELSE IF ~IsDigit(At(rule_parts, 0))
    THEN RuleRet("raise", EmptyDict, notes)                          \* int(): ValueError
    ELSE IF Len(rule_parts) < 2 \/ At(rule_parts, 1).k \notin DOMAIN actions_xe_to_oc
    THEN RuleRet("raise", EmptyDict, notes)                          \* IndexError / KeyError
    ELSE
    Bind(SetProtocol(acl_type, acl_name,
                     NewEntry(IntOf(At(rule_parts, 0)), At(rule_parts, 1).k),
                     rule_parts, notes),
         LAMBDA p :
           IF ~p.ok
           THEN \* current_index was never bound: line 138 raises UnboundLocalError
                RuleRet("raise", p.entry, p.notes)
           ELSE
           Bind(SetIpAndPort(acl_type, acl_name, rule_parts, p.idx, p.entry, TRUE, p.notes),
                LAMBDA s :
                  IF ~s.ok
                  THEN RuleRet("False", WithLogAction(s.entry, rule_parts, p.idx), s.notes)
                  ELSE IF acl_type # ACL_EXT_TYPE
                  THEN RuleRet("True", WithLogAction(s.entry, rule_parts, s.idx), s.notes)
                  ELSE
                  Bind(SetIpAndPort(acl_type, acl_name, rule_parts, s.idx, s.entry, FALSE,
                                    s.notes),
                       LAMBDA d :
                         IF ~d.ok
                         THEN RuleRet("False", WithLogAction(d.entry, rule_parts, s.idx),
                                      d.notes)
                         ELSE RuleRet("True", WithLogAction(d.entry, rule_parts, d.idx),
                                      d.notes))))

(***************************************************************************)
(* Input configurations of the ACL pass.                                   *)
(*                                                                         *)
(* config_before holds the list ip/access-list/standard/std-named-acl      *)
(* under "standard", ip/access-list/extended/ext-named-acl under           *)
(* "extended" and line/vty under "vty".  The configurations drawn here     *)
(* have no interface access-group and no ntp access-group, and they have   *)
(* vty lines, as every IOS-XE device does.                                 *)
(***************************************************************************)
MaxRules == 2

\* The named ACLs of a device, by kind and in device order.
AclShapes ==
    {<<>>, <<"standard">>, <<"extended">>, <<"standard", "standard">>,
     <<"standard", "extended">>, <<"extended", "extended">>}

AclType(acl_list) == IF acl_list = "standard" THEN ACL_STD_TYPE ELSE ACL_EXT_TYPE

\* ACL names are the numbers IOS uses: 10, 11, ... standard; 101, 102, ... extended.
AclName(acl_list, i) == IF acl_list = "standard" THEN 9 + i ELSE 100 + i

NetAddr == Ip(10, 0, 0, 0)

HostAddr == Ip(10, 0, 0, 1)

Masks ==
    {Ip(0, 0, 0, 0), Ip(0, 0, 0, 255), Ip(0, 255, 255, 255), Ip(255, 255, 255, 255),
     Ip(0, 0, 255, 0)}

AddrSpecs == {<<Kw("any")>>, <<Kw("host"), HostAddr>>} \cup {<<NetAddr, m>> : m \in Masks}

AddrSpecsBrief == {<<Kw("any")>>, <<Kw("host"), HostAddr>>, <<NetAddr, Ip(0, 0, 0, 255)>>}

PortSpecs ==
    {<<>>, <<Kw("eq"), Num(80)>>, <<Kw("eq"), Kw("www")>>, <<Kw("eq"), Kw("nosuchsvc")>>,
     <<Kw("range"), Num(20), Num(21)>>, <<Kw("lt"), Num(1024)>>, <<Kw("gt"), Num(1023)>>,
     <<Kw("neq"), Num(80)>>}

FlagSpecs == {<<>>, <<Kw("ack")>>, <<Kw("established")>>}

LogSpecs == {<<>>, <<Kw("log-input")>>}

\* "<seq> <action> <src-spec> [log-input]", plus an empty rule and a rule without mask.
StdRules ==
    {<<Num(10), Kw(a)>> \o src \o log :
        a \in {"permit", "deny"}, src \in AddrSpecs, log \in LogSpecs}
    \cup {<<>>, <<Num(10), Kw("permit"), NetAddr>>}

\* "<seq> <action> ip <src-spec> <dst-spec> [log-input]"
ExtIpRules ==
    {<<Num(10), Kw("permit"), Kw("ip")>> \o src \o dst \o log :
        src \in AddrSpecsBrief, dst \in AddrSpecs, log \in LogSpecs}

\* "<seq> <action> tcp <src-spec> [<port-spec>] <dst-spec> [<port-spec>] [<flag>] [log-input]"
ExtTcpRules ==
    {<<Num(10), Kw("permit"), Kw("tcp")>> \o src \o sport \o dst \o dport \o flag \o log :
        src \in {<<Kw("any")>>, <<Kw("host"), HostAddr>>}, sport \in PortSpecs,
        dst \in AddrSpecsBrief, dport \in PortSpecs, flag \in FlagSpecs, log \in LogSpecs}

\* Other protocols, an unknown protocol, and rules that stop early.
ExtOtherRules ==
    {<<Num(10), Kw("deny"), Kw("udp"), Kw("any"), Kw("any"), Kw("eq"), Num(53)>>,
     <<Num(10), Kw("permit"), Kw("icmp"), Kw("any"), Kw("any")>>,
     <<Num(10), Kw("permit"), Kw("ospf"), Kw("any"), Kw("any")>>,
     <<Num(10), Kw("permit"), Kw("tcp"), Kw("any")>>,
     <<Num(10), Kw("permit"), Kw("tcp"), Kw("any"), Kw("any"), Kw("range"), Num(20)>>,
     <<Num(10), Kw("permit"), Kw("tcp"), Kw("any"), Kw("lt"), Num(0), Kw("any")>>,
     <<Num(10), Kw("permit"), Kw("tcp"), Kw("any"), Kw("gt"), Num(MaxPort), Kw("any")>>,
     <<Num(10), Kw("permit"), Kw("tcp"), Kw("any"), Kw("any"), Kw("lt"), Num(0)>>,
     <<Num(10), Kw("permit"), Kw("tcp"), Kw("any"), Kw("any"), Kw("gt"), Num(MaxPort)>>,
     <<>>}

ExtRules == ExtIpRules \cup ExtTcpRules \cup ExtOtherRules

\* The rules the several-rule configurations are built from.
StdFew == {<<Num(10), Kw("permit"), Kw("any")>>, <<Num(20), Kw("permit"), NetAddr>>}

ExtFew ==
    {<<Num(10), Kw("permit"), Kw("ip"), Kw("any"), Kw("any")>>,
     <<Num(20), Kw("permit"), Kw("ospf"), Kw("any"), Kw("any")>>,
     <<Num(30), Kw("permit"), Kw("tcp"), Kw("any"), Kw("any"), Kw("neq"), Num(80)>>}

AclDict(acl_list, i, rules) ==
    [x \in {"name", RuleListKey(AclType(acl_list))} |->
        IF x = "name" THEN AclName(acl_list, i)
        ELSE [j \in 1..Len(rules) |-> [y \in {"rule"} |-> rules[j]]]]

\* The configuration whose ACLs have the kinds of shape and the rule lists rules.
ConfigOf(shape, rules) ==
    LET stdIdx == {i \in 1..Len(shape) : shape[i] = "standard"}
        nStd == Cardinality(stdIdx)
    IN [standard |-> [i \in 1..nStd |-> AclDict("standard", i, rules[i])],
        extended |-> [i \in 1..(Len(shape) - nStd) |-> AclDict("extended", i, rules[nStd + i])],
        vty |-> <<[first |-> 0, last |-> 4]>>,
        interface |-> <<>>]

FewRules(acl_list) ==
    SeqsUpTo(IF acl_list = "standard" THEN StdFew ELSE ExtFew, MaxRules)

Configs ==
    {ConfigOf(<<"standard">>, <<<<r>>>>) : r \in StdRules}
    \cup {ConfigOf(<<"extended">>, <<<<r>>>>) : r \in ExtRules}
    \cup UNION {{ConfigOf(shape, rules) :
                    rules \in {rs \in [1..Len(shape) -> FewRules("standard") \cup FewRules("extended")] :
                                  \A i \in 1..Len(shape) : rs[i] \in FewRules(shape[i])}} :
                shape \in AclShapes}

(***************************************************************************)
(* Interfaces with access-groups.  The configuration keeps the list of one *)
(* interface type, GigabitEthernet, under interface.  An interface name is *)
(* the sequence of its numbers and separators: <<Num(1)>> is "1" and       *)
(* <<Num(1), Kw("."), Num(100)>> is "1.100".                               *)
(***************************************************************************)
InterfaceType == "GigabitEthernet"

AccessGroup(direction, access_list) ==
    [x \in {"direction", "access-list"} |-> IF x = "direction" THEN direction ELSE access_list]

InterfaceWith(name, access_groups) ==
    [x \in {"name", "ip"} |->
        IF x = "name" THEN name ELSE [y \in {"access-group"} |-> access_groups]]

\* re.split("[\./]", interface["name"])
SplitName(name) == SelectSeq(name, LAMBDA part : part.k \notin {".", "/"})

\* get_interfaces_by_acl, line 319: the interface has an access-group to read.
HasAccessGroup(interface) ==
    /\ Has(interface, "ip")
    /\ Has(interface["ip"], "access-group")
    /\ Len(interface["ip"]["access-group"]) >= 1

\* get_interfaces_by_acl, lines 322-334: the intf of an access-group of an interface.
IntfOf(interface, access_group) ==
    [id |-> <<InterfaceType>> \o interface["name"],
     interface |-> <<InterfaceType, SplitName(interface["name"])[1]>>,
     subinterface |-> IF Len(SplitName(interface["name"])) > 1
                      THEN IntOf(SplitName(interface["name"])[2]) ELSE 0,
     direction |-> access_group["direction"]]

\* The access-groups of the interfaces from index on, in the order the loops of
\* get_interfaces_by_acl visit them, each with its interface.
RECURSIVE AccessGroupsFrom(_, _)
AccessGroupsFrom(interface_list, index) ==
    IF index > Len(interface_list) THEN <<>>
    ELSE (IF HasAccessGroup(interface_list[index])
          THEN [g \in 1..Len(interface_list[index]["ip"]["access-group"]) |->
                   [acl |-> interface_list[index]["ip"]["access-group"][g]["access-list"],
                    intf |-> IntfOf(interface_list[index],
                                    interface_list[index]["ip"]["access-group"][g])]]
          ELSE <<>>)
         \o AccessGroupsFrom(interface_list, index + 1)

IntfsOf(bindings) == [i \in 1..Len(bindings) |-> bindings[i].intf]

\* get_interfaces_by_acl, lines 336-342: the dict it returns.
get_interfaces_by_acl(config) ==
    LET bindings == AccessGroupsFrom(config.interface, 1)
    IN [acl_name \in {bindings[i].acl : i \in 1..Len(bindings)} |->
           IntfsOf(SelectSeq(bindings, LAMBDA b : b.acl = acl_name))]

\* get_interfaces_by_acl, lines 326-328: the leftover interface list after the call.
DelAccessGroups(interface_list, interface_list_after) ==
    [index \in 1..Len(interface_list_after) |->
        IF /\ HasAccessGroup(interface_list[index])
           /\ Has(interface_list_after[index], "ip")
           /\ Has(interface_list_after[index]["ip"], "access-group")
        THEN [interface_list_after[index] EXCEPT !["ip"] = Del(@, "access-group")]
        ELSE interface_list_after[index]]

\* process_interfaces, lines 351-361: a new entry of acl_interfaces.
NewAclInterface(intf) ==
    [x \in {"openconfig-acl:id", "openconfig-acl:config", "openconfig-acl:interface-ref"} |->
        CASE x = "openconfig-acl:id" -> intf.id
          [] x = "openconfig-acl:config" -> [y \in {"openconfig-acl:id"} |-> intf.id]
          [] x = "openconfig-acl:interface-ref" ->
                [y \in {"openconfig-acl:config"} |->
                    [z \in {"openconfig-acl:interface", "openconfig-acl:subinterface"} |->
                        IF z = "openconfig-acl:interface" THEN intf.interface
                        ELSE intf.subinterface]]]

\* process_interfaces, lines 364-371: the entry appended to an ingress or egress list.
AclSetRef(acl_type, acl_name) ==
    [x \in {"openconfig-acl:set-name", "openconfig-acl:type", "openconfig-acl:config"} |->
        CASE x = "openconfig-acl:set-name" -> acl_name
          [] x = "openconfig-acl:type" -> acl_type
          [] x = "openconfig-acl:config" ->
                [y \in {"openconfig-acl:set-name", "openconfig-acl:type"} |->
                    IF y = "openconfig-acl:set-name" THEN acl_name ELSE acl_type]]

\* xe_acls.py, get_intf_acl_set.
AclSetsKey(direction) ==
    IF direction = "in" THEN "openconfig-acl:ingress-acl-sets"
    ELSE "openconfig-acl:egress-acl-sets"

AclSetKey(direction) ==
    IF direction = "in" THEN "openconfig-acl:ingress-acl-set"
    ELSE "openconfig-acl:egress-acl-set"

get_intf_acl_set(acl_interface, direction) ==
    LET a1 == IF ~Has(acl_interface, AclSetsKey(direction))
              THEN Put(acl_interface, AclSetsKey(direction),
                       [x \in {AclSetKey(direction)} |-> <<>>])
              ELSE acl_interface
    IN IF ~Has(a1[AclSetsKey(direction)], AclSetKey(direction))
       THEN [a1 EXCEPT ![AclSetsKey(direction)] = Put(@, AclSetKey(direction), <<>>)]
       ELSE a1

IntfAclSetNode(acl_interface, direction) ==
    acl_interface[AclSetsKey(direction)][AclSetKey(direction)]

\* get_intf_acl_set followed by the append of process_interfaces, on one acl_interface.
AppendAclSet(acl_interface, direction, acl_set_ref) ==
    [get_intf_acl_set(acl_interface, direction)
        EXCEPT ![AclSetsKey(direction)][AclSetKey(direction)] = Append(@, acl_set_ref)]

\* acl_interfaces is a dict keyed by interface id; the model keeps its values in
\* insertion order, which is the order xe_acls reads them in.
PositionOf(acl_interfaces, id) ==
    {i \in 1..Len(acl_interfaces) : acl_interfaces[i]["openconfig-acl:id"] = id}

\* process_interfaces, one iteration of its loop.
ProcessInterface(acl_type, acl_name, intf, acl_interfaces) ==
    LET known == IF PositionOf(acl_interfaces, intf.id) = {}
                 THEN Append(acl_interfaces, NewAclInterface(intf))
                 ELSE acl_interfaces
        at == CHOOSE i \in PositionOf(known, intf.id) : TRUE
    IN [known EXCEPT ![at] = AppendAclSet(@, intf.direction, AclSetRef(acl_type, acl_name))]

RECURSIVE ProcessInterfacesFrom(_, _, _, _, _)
ProcessInterfacesFrom(acl_type, acl_name, interfaces, index, acl_interfaces) ==
    IF index > Len(interfaces) THEN acl_interfaces
    ELSE ProcessInterfacesFrom(acl_type, acl_name, interfaces, index + 1,
            ProcessInterface(acl_type, acl_name, interfaces[index], acl_interfaces))

\* process_interfaces skips the interfaces of every ACL name but acl_name.
process_interfaces(acl_type, acl_name, by_acl, acl_interfaces) ==
    ProcessInterfacesFrom(acl_type, acl_name, Get(by_acl, acl_name, <<>>), 1, acl_interfaces)

\* The interface lists of the devices: none, an interface bound to the first standard
\* ACL, one bound in both directions, one bound to ACL 55, which no device configures,
\* and a subinterface next to an interface without ip settings.
InterfaceLists ==
    {<<>>,
     <<InterfaceWith(<<Num(1)>>, <<AccessGroup("in", AclName("standard", 1))>>)>>,
     <<InterfaceWith(<<Num(1)>>, <<AccessGroup("in", AclName("standard", 1)),
                              AccessGroup("out", AclName("extended", 1))>>)>>,
     <<InterfaceWith(<<Num(1)>>, <<AccessGroup("in", 55)>>)>>,
     <<InterfaceWith(<<Num(1), Kw("."), Num(100)>>, <<AccessGroup("out", AclName("extended", 1))>>),
       [x \in {"name"} |-> <<Num(2)>>],
       InterfaceWith(<<Num(1)>>, <<AccessGroup("out", AclName("standard", 1))>>)>>}

\* The named ACLs of the devices: none, a standard ACL, an extended ACL with a rule
\* of a protocol that is not translated, one ACL of each kind, and an extended ACL
\* with a rule that is noted and left in place.
DeviceAcls ==
    {ConfigOf(<<>>, <<>>),
     ConfigOf(<<"standard">>, <<<<<<Num(10), Kw("permit"), Kw("any")>>>>>>),
     ConfigOf(<<"extended">>,
              <<<<<<Num(20), Kw("permit"), Kw("ospf"), Kw("any"), Kw("any")>>>>>>),
     ConfigOf(<<"standard", "extended">>,
              <<<<<<Num(10), Kw("permit"), Kw("any")>>>>,
                <<<<Num(10), Kw("permit"), Kw("ip"), Kw("any"), Kw("any")>>>>>>),
     ConfigOf(<<"extended">>,
              <<<<<<Num(30), Kw("permit"), Kw("tcp"), Kw("any"), Kw("any"), Kw("neq"),
                    Num(80)>>>>>>)}

Devices ==
    {[config EXCEPT !.interface = interface_list] :
        config \in DeviceAcls, interface_list \in InterfaceLists}

(***************************************************************************)
(* State of the ACL pass (xe_acls.main -> xe_acls).                        *)
(***************************************************************************)
VARIABLES
    config_before,      \* the source configuration (read only)
    config_after,       \* the leftover configuration, mutated in place
    openconfig_acls,    \* module-level output tree: its acl-set list and its lines
    acls_notes,         \* module-level notes list
    pc,                 \* position in xe_acls
    acl_list,           \* "standard" or "extended": the loop xe_acls is in
    acl_index,          \* std_index / ext_index, 0-based
    rule_index,         \* rule_index of process_acl, 0-based
    acl_success,        \* acl_success of process_acl
    emitted_from,       \* history: per output acl-set, the rule indexes of its entries
    interfaces_by_acl,  \* interfaces_by_acl of xe_acls
    acl_interfaces,     \* acl_interfaces of xe_acls, its values in insertion order
    translation_notes,  \* the notes list handed to main
    earlier_calls       \* history: what the earlier calls of main were given and returned

aclVars ==
    <<config_before, config_after, openconfig_acls, acls_notes, pc, acl_list, acl_index,
      rule_index, acl_success, emitted_from, interfaces_by_acl, acl_interfaces,
      translation_notes, earlier_calls>>

(***************************************************************************)
(* State of one call of get_interfaces_by_area.                            *)
(***************************************************************************)
VARIABLES
    network_statements,           \* argument
    vrf_interfaces,               \* argument
    sorted_network_statements,    \* local
    stmt_index,                   \* position of the statement loop, 0-based
    processed_interfaces,         \* local
    interfaces_by_area,           \* local, returned
    bind_pc                       \* "call", "loop", "returned", "raised", or "idle"

bindVars ==
    <<network_statements, vrf_interfaces, sorted_network_statements, stmt_index,
      processed_interfaces, interfaces_by_area, bind_pc>>

(***************************************************************************)
(* State of one match test of get_interfaces_by_area (lines 63-73): the    *)
(* statement's ip and mask, the interface's address, the two merged        *)
(* strings.                                                                *)
(***************************************************************************)
VARIABLES
    merge_ip,              \* net_stmt["ip"]
    merge_mask,            \* net_stmt["mask"]
    merge_address,         \* the interface's primary address
    merged_statement_ip,   \* local
    merged_vrf_intf_ip,    \* local
    merge_pc               \* "call", "merged", or "idle"

mergeVars ==
    <<merge_ip, merge_mask, merge_address, merged_statement_ip, merged_vrf_intf_ip, merge_pc>>

(***************************************************************************)
(* State of a caller that calls one get-or-create helper, stores something *)
(* in the node it returned, and calls the helper again with the same       *)
(* arguments.                                                              *)
(***************************************************************************)
VARIABLES
    goc_helper,     \* the helper called
    goc_arg,        \* its second argument (prot_index, area_id, acl type, direction)
    goc_tree,       \* its first argument: the destination structure, mutated in place
    goc_returned,   \* history: the content of the node each call returned
    goc_stored,     \* history: goc_tree and the node's content after the store
    goc_pc          \* "first", "store", "second", "done", "raised", or "idle"

gocVars == <<goc_helper, goc_arg, goc_tree, goc_returned, goc_stored, goc_pc>>

\* The state of configure_xe_ospf (xe_ospfv2.py).
VARIABLES
    ospf_instance_type,     \* net_inst's config type
    ospf_router_before,     \* config_before["tailf-ned-cisco-ios:router"]
    ospf_intf_before,       \* config_before["tailf-ned-cisco-ios:interface"]
    ospf_vrf_interfaces,    \* the interfaces of the instance
    ospf_router_leftover,   \* config_leftover["tailf-ned-cisco-ios:router"]
    ospf_intf_leftover,     \* config_leftover["tailf-ned-cisco-ios:interface"]
    ospf_net_protocols,     \* the protocol list of the instance
    ospf_index,             \* position in the OSPF list
    ospf_step,              \* the steps of process_ospf that are done
    ospf_area_list,         \* check_areas: area_list
    ospf_area_key,          \* check_areas: position in area_list
    ospf_area_0_present,    \* check_areas: is_area_0_present
    ospf_by_area,           \* check_areas: interfaces_by_area
    ospf_earlier,           \* history: the earlier invocations over this source/leftover
    ospf_pc

ospfVars ==
    <<ospf_instance_type, ospf_router_before, ospf_intf_before, ospf_vrf_interfaces,
      ospf_router_leftover, ospf_intf_leftover, ospf_net_protocols, ospf_index, ospf_step,
      ospf_area_list, ospf_area_key, ospf_area_0_present, ospf_by_area, ospf_earlier,
      ospf_pc>>

\* The state of the BGP program services (xe_bgp.py).
VARIABLES
    bgp_service,        \* self.service.oc_bgp__bgp
    bgp_device,         \* the device's config.ios__router.bgp
    bgp_function,       \* the program service that runs: "neighbors" or "peergroups"
    bgp_index,          \* position in the neighbor or peer-group list
    bgp_pc

bgpVars == <<bgp_service, bgp_device, bgp_function, bgp_index, bgp_pc>>

\* The state of check_xr_features (xr_main.py).
VARIABLES
    xr_service,             \* what the service has configured, by feature family
    xr_step,                \* the checks that are passed
    xr_system_called,       \* xr_system_program_service has been called
    xr_pc

xrVars == <<xr_service, xr_step, xr_system_called, xr_pc>>

\* The state of a caller that calls get_area_by_id several times on one area list.
VARIABLES
    al_ospfv2_area,     \* the area list, mutated in place
    al_requested,       \* history: the identifiers requested, in call order
    al_returned,        \* history: the position of the entry each call returned
    al_appended,        \* history: whether each call appended an entry
    al_pc

alVars == <<al_ospfv2_area, al_requested, al_returned, al_appended, al_pc>>

vars == <<aclVars, bindVars, mergeVars, gocVars, ospfVars, bgpVars, xrVars, alVars>>

nonAclVars == <<bindVars, mergeVars, gocVars, ospfVars, bgpVars, xrVars, alVars>>

nonBindVars == <<aclVars, mergeVars, gocVars, ospfVars, bgpVars, xrVars, alVars>>

nonMergeVars == <<aclVars, bindVars, gocVars, ospfVars, bgpVars, xrVars, alVars>>

nonGocVars == <<aclVars, bindVars, mergeVars, ospfVars, bgpVars, xrVars, alVars>>

nonOspfVars == <<aclVars, bindVars, mergeVars, gocVars, bgpVars, xrVars, alVars>>

nonBgpVars == <<aclVars, bindVars, mergeVars, gocVars, ospfVars, xrVars, alVars>>

nonXrVars == <<aclVars, bindVars, mergeVars, gocVars, ospfVars, bgpVars, alVars>>

nonAlVars == <<aclVars, bindVars, mergeVars, gocVars, ospfVars, bgpVars, xrVars>>

\* The list xe_acls iterates over, in the source and in the leftover tree.
NamedAcls(config, list) == IF list = "standard" THEN config.standard ELSE config.extended

CurrentAcl == NamedAcls(config_before, acl_list)[acl_index + 1]

CurrentRules == CurrentAcl[RuleListKey(AclType(acl_list))]

OcAclSet == openconfig_acls["openconfig-acl:acl-set"]

EntriesOf(acl_set) == acl_set["openconfig-acl:acl-entries"]["openconfig-acl:acl-entry"]

\* config_after with f applied to the leftover entry of the current ACL.
WithLeftoverAcl(f(_)) ==
    IF acl_list = "standard"
    THEN [config_after EXCEPT !.standard[acl_index + 1] = f(@)]
    ELSE [config_after EXCEPT !.extended[acl_index + 1] = f(@)]

AclInit ==
    /\ config_before \in Configs \cup Devices
    /\ config_after = config_before
    /\ openconfig_acls =
         [x \in {"openconfig-acl:acl-set", "openconfig-acl:interface"} |-> <<>>]
    /\ acls_notes = <<>>
    /\ pc = "begin"
    /\ acl_list = "standard"
    /\ acl_index = 0
    /\ rule_index = 0
    /\ acl_success = TRUE
    /\ emitted_from = <<>>
    /\ interfaces_by_acl = EmptyDict
    /\ acl_interfaces = <<>>
    /\ translation_notes = <<>>
    /\ earlier_calls = <<>>

\* xe_acls, lines 56-61: get_interfaces_by_acl reads the access-groups of the
\* interfaces and deletes them from the leftover tree.
XeAclsBegin ==
    /\ pc = "begin"
    /\ pc' = "acl"
    /\ acl_list' = "standard"
    /\ acl_index' = 0
    /\ interfaces_by_acl' = get_interfaces_by_acl(config_before)
    /\ config_after' =
         [config_after EXCEPT !.interface = DelAccessGroups(config_before.interface, @)]
    /\ acl_interfaces' = <<>>
    /\ UNCHANGED <<config_before, openconfig_acls, acls_notes, rule_index, acl_success,
                   emitted_from, translation_notes, earlier_calls>>
    /\ UNCHANGED nonAclVars

\* The std-named-acl loop is exhausted: xe_acls goes on with ext-named-acl.
NextList ==
    /\ pc = "acl"
    /\ acl_list = "standard"
    /\ acl_index >= Len(NamedAcls(config_before, "standard"))
    /\ acl_list' = "extended"
    /\ acl_index' = 0
    /\ UNCHANGED <<config_before, config_after, openconfig_acls, acls_notes, pc, rule_index,
                   acl_success, emitted_from, interfaces_by_acl, acl_interfaces,
                   translation_notes, earlier_calls>>
    /\ UNCHANGED nonAclVars

\* BaseAcl.process_acl: the new acl_set is appended to the output, before any rule is read.
NewAclSet(acl_type, name) ==
    [x \in {"openconfig-acl:name", "openconfig-acl:type", "openconfig-acl:config",
            "openconfig-acl:acl-entries"} |->
        CASE x = "openconfig-acl:name" -> name
          [] x = "openconfig-acl:type" -> acl_type
          [] x = "openconfig-acl:config" ->
                [y \in {"openconfig-acl:name", "openconfig-acl:type",
                        "openconfig-acl:description"} |->
                    IF y = "openconfig-acl:type" THEN acl_type ELSE name]
          [] x = "openconfig-acl:acl-entries" ->
                [y \in {"openconfig-acl:acl-entry"} |-> <<>>]]

StartAcl ==
    /\ pc = "acl"
    /\ acl_index < Len(NamedAcls(config_before, acl_list))
    /\ openconfig_acls' =
         [openconfig_acls EXCEPT !["openconfig-acl:acl-set"] =
            Append(@, NewAclSet(AclType(acl_list), Get(CurrentAcl, "name", None)))]
    /\ emitted_from' = Append(emitted_from, <<>>)
    /\ acl_success' = TRUE
    /\ rule_index' = 0
    /\ pc' = "rule"
    /\ UNCHANGED <<config_before, config_after, acls_notes, acl_list, acl_index,
                   interfaces_by_acl, acl_interfaces, translation_notes, earlier_calls>>
    /\ UNCHANGED nonAclVars

\* A leftover update that removes the rule from the list instead of nulling it.
RemoveRule(acl_after, acl_type, index) ==
    [acl_after EXCEPT ![RuleListKey(acl_type)] =
        SubSeq(@, 1, index) \o SubSeq(@, index + 2, Len(@))]

\* The leftover ACL with its rule rule_index nulled (process_acl, line 104).
NullRule(acl_after, acl_type, index) ==
    [acl_after EXCEPT ![RuleListKey(acl_type)][index + 1] = None]

NullCurrentRule(acl_after) == NullRule(acl_after, AclType(acl_list), rule_index)

\* One iteration of the rule loop of process_acl: __set_rule_parts, then the leftover update.
ProcessRule ==
    /\ pc = "rule"
    /\ rule_index < Len(CurrentRules)
    /\ \E r \in {SetRuleParts(AclType(acl_list), Get(CurrentAcl, "name", None),
                              Get(CurrentRules[rule_index + 1], "rule", <<>>), acls_notes)} :
          /\ acls_notes' = r.notes
          /\ IF r.ret = "raise"
             THEN /\ pc' = "raised"
                  /\ UNCHANGED <<config_after, openconfig_acls, rule_index, acl_success,
                                 emitted_from>>
             ELSE /\ pc' = "rule"
                  /\ rule_index' = rule_index + 1
                  /\ openconfig_acls' =
                       IF r.emitted
                       THEN [openconfig_acls EXCEPT
                               !["openconfig-acl:acl-set"][Len(OcAclSet)]
                                ["openconfig-acl:acl-entries"]["openconfig-acl:acl-entry"] =
                                    Append(@, r.entry)]
                       ELSE openconfig_acls
                  /\ emitted_from' =
                       IF r.emitted
                       THEN [emitted_from EXCEPT ![Len(OcAclSet)] = Append(@, rule_index)]
                       ELSE emitted_from
                  /\ config_after' =
                       IF r.ret = "True" THEN WithLeftoverAcl(NullCurrentRule) ELSE config_after
                  /\ acl_success' = IF r.ret = "True" THEN acl_success ELSE FALSE
    /\ UNCHANGED <<config_before, acl_list, acl_index, interfaces_by_acl, acl_interfaces,
                   translation_notes, earlier_calls>>
    /\ UNCHANGED nonAclVars

\* A leftover update that keeps the name.
KeepName(acl_after) == acl_after

\* The leftover ACL after the rule loop (process_acl, lines 108-110).
DropName(acl_after) == Del(acl_after, "name")

\* End of process_acl, and process_interfaces for the ACL.
FinishAcl ==
    /\ pc = "rule"
    /\ rule_index >= Len(CurrentRules)
    /\ config_after' = IF acl_success THEN WithLeftoverAcl(DropName) ELSE config_after
    /\ acl_interfaces' =
         process_interfaces(AclType(acl_list), CurrentAcl["name"], interfaces_by_acl,
                            acl_interfaces)
    /\ acl_index' = acl_index + 1
    /\ pc' = "acl"
    /\ UNCHANGED <<config_before, openconfig_acls, acls_notes, acl_list, rule_index,
                   acl_success, emitted_from, interfaces_by_acl, translation_notes,
                   earlier_calls>>
    /\ UNCHANGED nonAclVars

\* process_line: openconfig_acls gets a fresh lines list, with a line item per vty
\* entry that has an access-class.
LineItem(access) ==
    [x \in {"openconfig-acl-ext:id", "openconfig-acl-ext:config"} |->
        IF x = "openconfig-acl-ext:id" THEN <<"vty", access.first, access.last>>
        ELSE [y \in {"openconfig-acl-ext:id"} |-> <<"vty", access.first, access.last>>]]

HasAccessClass(access) ==
    \/ Has(access, "access-class") /\ Has(access["access-class"], "access-list")
    \/ Has(access, "access-class-vrf") /\ Has(access["access-class-vrf"], "access-class")

ProcessLine(oc, vty_accesses) ==
    Put(oc, "openconfig-acl-ext:lines",
        [x \in {"openconfig-acl-ext:line"} |->
            [i \in 1..Len(SelectSeq(vty_accesses, HasAccessClass)) |->
                LineItem(SelectSeq(vty_accesses, HasAccessClass)[i])]])

\* An xe_acls that starts the output interface list anew.
ReplaceInterfaces(oc, interfaces) ==
    [oc EXCEPT !["openconfig-acl:interface"] = interfaces]

\* xe_acls, line 72: the values of acl_interfaces are appended to the output list.
AppendInterfaces(oc, interfaces) ==
    [oc EXCEPT !["openconfig-acl:interface"] = @ \o interfaces]

\* xe_acls, lines 71-75: the interface list, process_ntp and process_line; then main,
\* lines 478-480, extends the notes list it was handed with acls_notes.
XeAclsEnd ==
    /\ pc = "acl"
    /\ acl_list = "extended"
    /\ acl_index >= Len(NamedAcls(config_before, "extended"))
    /\ \E oc \in {AppendInterfaces(openconfig_acls, acl_interfaces)} :
          openconfig_acls' = ProcessLine(oc, config_before.vty)
    /\ translation_notes' = translation_notes \o acls_notes
    /\ pc' = "done"
    /\ UNCHANGED <<config_before, config_after, acls_notes, acl_list, acl_index, rule_index,
                   acl_success, emitted_from, interfaces_by_acl, acl_interfaces,
                   earlier_calls>>
    /\ UNCHANGED nonAclVars

AclNext == XeAclsBegin \/ NextList \/ StartAcl \/ ProcessRule \/ FinishAcl \/ XeAclsEnd

\* The number of devices translated in one process.
MaxDevices == 2

\* main is called for the next device, with a notes list of its own: the module-level
\* openconfig_acls and acls_notes are as the earlier call left them.
MainAgain ==
    /\ pc = "done"
    /\ Len(earlier_calls) + 1 < MaxDevices
    /\ earlier_calls' =
         Append(earlier_calls,
                [before |-> config_before, returned |-> openconfig_acls,
                 notes |-> translation_notes])
    /\ config_before' \in Devices
    /\ config_after' = config_before'
    /\ translation_notes' = <<>>
    /\ pc' = "begin"
    /\ acl_list' = "standard"
    /\ acl_index' = 0
    /\ rule_index' = 0
    /\ acl_success' = TRUE
    /\ UNCHANGED <<openconfig_acls, acls_notes, emitted_from, interfaces_by_acl,
                   acl_interfaces>>
    /\ UNCHANGED nonAclVars

(***************************************************************************)
(* xe_ospfv2.py: binding of interfaces to areas by network statements.     *)
(*                                                                         *)
(* A network statement is a dict with the keys "ip", "mask" and "area",    *)
(* any of which may be absent; ip and mask are dotted quads (their four    *)
(* octets), and the empty string is <<>>.  An area id read from the device *)
(* is an integer; the default the code supplies is the string "0".         *)
(***************************************************************************)
AreaInt(n) == [t |-> "int", v |-> n]

AreaStr(n) == [t |-> "str", v |-> n]

\* "not mask": None and the empty string are both false.
Falsy(mask) == mask = <<>>

\* sort_by_mask: negative, zero or positive as stmt1 sorts before, with or after stmt2.
\* Both masks have four octets here, so the sanity check of line 102 passes.
RECURSIVE OctetDiff(_, _, _)
OctetDiff(mask1_octets, mask2_octets, octet_index) ==
    IF octet_index > Len(mask1_octets) THEN 0
    ELSE IF mask1_octets[octet_index] = mask2_octets[octet_index]
    THEN OctetDiff(mask1_octets, mask2_octets, octet_index + 1)
    ELSE mask1_octets[octet_index] - mask2_octets[octet_index]

\* A comparator that ignores every octet but the last.
sort_by_last_octet(stmt1, stmt2) ==
    LET mask1 == Get(stmt1, "mask", <<>>)
        mask2 == Get(stmt2, "mask", <<>>)
    IN IF Falsy(mask1) /\ Falsy(mask2) THEN 0
       ELSE IF Falsy(mask1) THEN 1
       ELSE IF Falsy(mask2) THEN -1
       ELSE mask1[Len(mask1)] - mask2[Len(mask2)]

sort_by_mask(stmt1, stmt2) ==
    LET mask1 == Get(stmt1, "mask", <<>>)
        mask2 == Get(stmt2, "mask", <<>>)
    IN IF Falsy(mask1) /\ Falsy(mask2) THEN 0
       ELSE IF Falsy(mask1) THEN 1
       ELSE IF Falsy(mask2) THEN -1
       ELSE OctetDiff(mask1, mask2, 1)

\* sorted(..., key=cmp_to_key(sort_by_mask)): a stable insertion sort; an element goes
\* before the first element it compares smaller than.
RECURSIVE InsertPos(_, _, _)
InsertPos(sorted, x, i) ==
    IF i > Len(sorted) THEN i
    ELSE IF sort_by_mask(x, sorted[i]) < 0 THEN i
    ELSE InsertPos(sorted, x, i + 1)

InsertAt(sorted, x, pos) ==
    SubSeq(sorted, 1, pos - 1) \o <<x>> \o SubSeq(sorted, pos, Len(sorted))

RECURSIVE SortedBy(_, _)
SortedBy(list, n) ==
    IF n = 0 THEN <<>>
    ELSE Bind(SortedBy(list, n - 1), LAMBDA done : InsertAt(done, list[n], InsertPos(done, list[n], 1)))

Sorted(list) == SortedBy(list, Len(list))

\* binary_merge: the OR of the two bit strings; get_binary_str raises ValueError on
\* an empty string (int('')).
BinaryMergeRaises(ip, mask) == ip = <<>> \/ mask = <<>>

\* A merge that ANDs the two bit strings.
binary_and(ip, mask) ==
    Bind(get_binary_str(ip), LAMBDA ip_in_binary :
    Bind(get_binary_str(mask), LAMBDA mask_in_binary :
        [index \in 1..Len(ip_in_binary) |->
            IF ip_in_binary[index] = 1 /\ mask_in_binary[index] = 1 THEN 1 ELSE 0]))

binary_merge(ip, mask) ==
    Bind(get_binary_str(ip), LAMBDA ip_in_binary :
    Bind(get_binary_str(mask), LAMBDA mask_in_binary :
        [index \in 1..Len(ip_in_binary) |->
            IF ip_in_binary[index] = 1 \/ mask_in_binary[index] = 1 THEN 1 ELSE 0]))

\* vrf_intf["type"] + vrf_intf["name"], both strings (sequences of characters here).
FullIntfName(vrf_intf) == vrf_intf.type \o vrf_intf.name

IntfAddress(vrf_intf) == vrf_intf.ip.address.primary.address

(***************************************************************************)
(* The inner loop of get_interfaces_by_area for one statement (lines       *)
(* 65-80), over the interfaces from position i on.  acc is the record      *)
(* [processed, by_area]; the loop is only entered with a mask that merges. *)
(***************************************************************************)
Matches(net_stmt, vrf_intf) ==
    binary_merge(Get(net_stmt, "ip", <<>>), Get(net_stmt, "mask", <<>>))
        = binary_merge(IntfAddress(vrf_intf), Get(net_stmt, "mask", <<>>))

AddToArea(by_area, area_id, vrf_intf) ==
    Put(by_area, area_id, Append(Get(by_area, area_id, <<>>), vrf_intf))

\* A skip test that never skips.
NeverProcessed(processed, vrf_intf) == FALSE

\* Lines 68-69: the interface was bound by an earlier statement.
AlreadyProcessed(processed, vrf_intf) == FullIntfName(vrf_intf) \in processed

RECURSIVE BindInterfaces(_, _, _, _)
BindInterfaces(net_stmt, intfs, i, acc) ==
    IF i > Len(intfs) THEN acc
    ELSE IF AlreadyProcessed(acc.processed, intfs[i])
    THEN BindInterfaces(net_stmt, intfs, i + 1, acc)
    ELSE IF Matches(net_stmt, intfs[i])
    THEN BindInterfaces(net_stmt, intfs, i + 1,
            [processed |-> acc.processed \cup {FullIntfName(intfs[i])},
             by_area |-> AddToArea(acc.by_area, Get(net_stmt, "area", AreaStr(0)), intfs[i])])
    ELSE BindInterfaces(net_stmt, intfs, i + 1, acc)

(***************************************************************************)
(* Inputs of get_interfaces_by_area.                                       *)
(***************************************************************************)
MaxStmts == 3

Stmt(ip, mask, area) == [x \in {"ip", "mask", "area"} |->
                            CASE x = "ip" -> ip [] x = "mask" -> mask [] x = "area" -> area]

NetworkStatements ==
    {Stmt(<<10, 0, 0, 0>>, <<0, 0, 0, 255>>, AreaInt(1)),
     Stmt(<<10, 0, 0, 5>>, <<0, 0, 0, 0>>, AreaInt(0)),
     Stmt(<<10, 0, 0, 0>>, <<255, 255, 255, 255>>, AreaInt(2)),
     Stmt(<<10, 0, 1, 0>>, <<0, 0, 1, 0>>, AreaInt(0)),
     Stmt(<<10, 0, 0, 0>>, <<0, 0, 0, 255>>, AreaInt(2)),
     Del(Stmt(<<10, 0, 0, 0>>, <<>>, AreaInt(1)), "mask"),
     Del(Stmt(<<10, 0, 0, 0>>, <<0, 0, 0, 255>>, AreaInt(0)), "area")}

VrfIntf(name, address) ==
    [type |-> <<"GigabitEthernet">>, name |-> <<name>>,
     ip |-> [address |-> [primary |-> [address |-> address]]]]

VrfInterfaceLists ==
    {<<>>,
     <<VrfIntf(1, <<10, 0, 0, 5>>)>>,
     <<VrfIntf(1, <<10, 0, 0, 5>>), VrfIntf(2, <<10, 0, 1, 7>>)>>,
     <<VrfIntf(1, <<10, 0, 0, 9>>), VrfIntf(2, <<10, 0, 0, 5>>)>>,
     <<VrfIntf(1, <<10, 0, 7, 7>>), VrfIntf(2, <<192, 168, 0, 1>>), VrfIntf(3, <<10, 0, 0, 5>>)>>}

BindInit ==
    /\ network_statements \in SeqsUpTo(NetworkStatements, MaxStmts)
    /\ vrf_interfaces \in VrfInterfaceLists
    /\ sorted_network_statements = <<>>
    /\ stmt_index = 0
    /\ processed_interfaces = {}
    /\ interfaces_by_area = EmptyDict
    /\ bind_pc = "call"

\* Lines 55-57.
SortStatements ==
    /\ bind_pc = "call"
    /\ sorted_network_statements' = Sorted(network_statements)
    /\ processed_interfaces' = {}
    /\ interfaces_by_area' = EmptyDict
    /\ stmt_index' = 0
    /\ bind_pc' = "loop"
    /\ UNCHANGED <<network_statements, vrf_interfaces>>
    /\ UNCHANGED nonBindVars

\* One iteration of the statement loop, lines 59-80.
BindStatement ==
    /\ bind_pc = "loop"
    /\ stmt_index < Len(sorted_network_statements)
    /\ \E net_stmt \in {sorted_network_statements[stmt_index + 1]} :
          IF BinaryMergeRaises(Get(net_stmt, "ip", <<>>), Get(net_stmt, "mask", <<>>))
          THEN /\ bind_pc' = "raised"
               /\ UNCHANGED <<stmt_index, processed_interfaces, interfaces_by_area>>
          ELSE \E acc \in {BindInterfaces(net_stmt, vrf_interfaces, 1,
                                          [processed |-> processed_interfaces,
                                           by_area |-> interfaces_by_area])} :
                  /\ processed_interfaces' = acc.processed
                  /\ interfaces_by_area' = acc.by_area
                  /\ stmt_index' = stmt_index + 1
                  /\ bind_pc' = "loop"
    /\ UNCHANGED <<network_statements, vrf_interfaces, sorted_network_statements>>
    /\ UNCHANGED nonBindVars

\* Line 82.
ReturnInterfacesByArea ==
    /\ bind_pc = "loop"
    /\ stmt_index >= Len(sorted_network_statements)
    /\ bind_pc' = "returned"
    /\ UNCHANGED <<network_statements, vrf_interfaces, sorted_network_statements, stmt_index,
                   processed_interfaces, interfaces_by_area>>
    /\ UNCHANGED nonBindVars

BindNext == SortStatements \/ BindStatement \/ ReturnInterfacesByArea

(***************************************************************************)
(* The match test of get_interfaces_by_area on 32-bit values.              *)
(***************************************************************************)
MergeIps ==
    {<<10, 0, c, d>> : c \in {0, 1}, d \in {0, 5, 128, 255}}
        \cup {<<0, 0, 0, 0>>, <<192, 168, 0, 1>>, <<255, 255, 255, 255>>}

MergeMasks ==
    {<<0, 0, c, d>> : c \in {0, 1, 255}, d \in {0, 3, 127, 250, 255}}
        \cup {<<0, 255, 255, 255>>, <<255, 255, 255, 255>>, <<255, 0, 0, 0>>}

MergeInit ==
    /\ merge_ip \in MergeIps
    /\ merge_mask \in MergeMasks
    /\ merge_address \in MergeIps
    /\ merged_statement_ip = <<>>
    /\ merged_vrf_intf_ip = <<>>
    /\ merge_pc = "call"

\* Lines 63 and 71.
MergeBoth ==
    /\ merge_pc = "call"
    /\ merged_statement_ip' = binary_merge(merge_ip, merge_mask)
    /\ merged_vrf_intf_ip' = binary_merge(merge_address, merge_mask)
    /\ merge_pc' = "merged"
    /\ UNCHANGED <<merge_ip, merge_mask, merge_address>>
    /\ UNCHANGED nonMergeVars

MergeNext == MergeBoth

(***************************************************************************)
(* xe_ospfv2.py: the get-or-create helpers of the destination tree.  Each  *)
(* operator gives the destination structure after the call; the node the   *)
(* call returns is read from it by the matching ...Node operator.          *)
(***************************************************************************)
Ospfv2Key == "openconfig-network-instance:ospfv2"

GlobalKey == "openconfig-network-instance:global"

AreasKey == "openconfig-network-instance:areas"

AreaKey == "openconfig-network-instance:area"

IdentifierKey == "openconfig-network-instance:identifier"

NiConfigKey == "openconfig-network-instance:config"

\* net_protocols[prot_index] raises IndexError (the sanity check of line 141 lets
\* prot_index = len(net_protocols) through to the subscript).
ProtIndexRaises(net_protocols, prot_index) == prot_index >= Len(net_protocols)

get_ospfv2_global(net_protocols, prot_index) ==
    LET prot == net_protocols[prot_index + 1]
        p1 == IF ~Has(prot, Ospfv2Key) THEN Put(prot, Ospfv2Key, EmptyDict) ELSE prot
        p2 == IF ~Has(p1[Ospfv2Key], GlobalKey)
              THEN [p1 EXCEPT ![Ospfv2Key] = Put(@, GlobalKey, EmptyDict)]
              ELSE p1
    IN [net_protocols EXCEPT ![prot_index + 1] = p2]

GlobalNode(net_protocols, prot_index) == net_protocols[prot_index + 1][Ospfv2Key][GlobalKey]

\* The test of line 156 looks for the key "areas"; the key written is AreasKey.
get_ospfv2_area(net_protocols, prot_index) ==
    LET prot == net_protocols[prot_index + 1]
        p1 == IF ~Has(prot, Ospfv2Key) THEN Put(prot, Ospfv2Key, EmptyDict) ELSE prot
        p2 == IF ~Has(p1[Ospfv2Key], "areas")
              THEN [p1 EXCEPT ![Ospfv2Key] = Put(@, AreasKey, [x \in {AreaKey} |-> <<>>])]
              ELSE p1
    IN [net_protocols EXCEPT ![prot_index + 1] = p2]

AreaListNode(net_protocols, prot_index) ==
    net_protocols[prot_index + 1][Ospfv2Key][AreasKey][AreaKey]

NewArea(area_id) ==
    [x \in {IdentifierKey, NiConfigKey} |->
        IF x = IdentifierKey THEN area_id ELSE [y \in {IdentifierKey} |-> area_id]]

\* The position (1-based) of the area get_area_by_id returns, after the call.
AreaPos(ospfv2_area, area_id) ==
    IF \E i \in 1..Len(ospfv2_area) : ospfv2_area[i][IdentifierKey] = area_id
    THEN CHOOSE i \in 1..Len(ospfv2_area) :
            /\ ospfv2_area[i][IdentifierKey] = area_id
            /\ \A j \in 1..(i - 1) : ospfv2_area[j][IdentifierKey] # area_id
    ELSE Len(ospfv2_area) + 1

\* A get_area_by_id that appends a new entry on every call.
AlwaysAppend(ospfv2_area, area_id) == Append(ospfv2_area, NewArea(area_id))

get_area_by_id(ospfv2_area, area_id) ==
    IF \E i \in 1..Len(ospfv2_area) : ospfv2_area[i][IdentifierKey] = area_id
    THEN ospfv2_area
    ELSE Append(ospfv2_area, NewArea(area_id))

(***************************************************************************)
(* A caller of one helper: call, store in the returned node, call again.   *)
(***************************************************************************)
GocHelpers ==
    {"get_ospfv2_global", "get_ospfv2_area", "get_area_by_id", "__get_ipv4_config",
     "__get_transport_config", "get_intf_acl_set"}

\* Destination structures a helper can be handed, and second arguments.
GocProtocols ==
    {EmptyDict,
     [x \in {Ospfv2Key} |-> EmptyDict],
     [x \in {Ospfv2Key} |-> [y \in {GlobalKey} |-> [z \in {"config"} |-> TRUE]]],
     [x \in {IdentifierKey} |-> "OSPF"]}

GocTrees(helper) ==
    CASE helper \in {"get_ospfv2_global", "get_ospfv2_area"} ->
            {<<p>> : p \in GocProtocols} \cup {<<p, q>> : p, q \in GocProtocols}
      [] helper = "get_area_by_id" ->
            {<<>>, <<NewArea(AreaInt(0))>>, <<NewArea(AreaInt(1)), NewArea(AreaInt(0))>>,
             <<NewArea(AreaStr(0))>>}
      [] helper \in {"__get_ipv4_config", "__get_transport_config"} ->
            {NewEntry(10, "permit"),
             SetIpv4(NewEntry(10, "permit"), ACL_EXT_TYPE, SrcAddrKey(ACL_EXT_TYPE),
                     Cidr(HostAddr, 32)),
             SetTransport(NewEntry(10, "permit"), PortKey(TRUE), PortAny)}
      [] helper = "get_intf_acl_set" ->
            {[x \in {"openconfig-acl:id"} |-> "GigabitEthernet1"],
             get_intf_acl_set([x \in {"openconfig-acl:id"} |-> "GigabitEthernet1"], "in"),
             [get_intf_acl_set([x \in {"openconfig-acl:id"} |-> "GigabitEthernet1"], "out")
                 EXCEPT ![AclSetsKey("out")][AclSetKey("out")] = <<"set">>]}

GocArgs(helper) ==
    CASE helper \in {"get_ospfv2_global", "get_ospfv2_area"} -> {0, 1}
      [] helper = "get_area_by_id" -> {AreaInt(0), AreaInt(1), AreaStr(0)}
      [] helper = "__get_ipv4_config" -> {ACL_STD_TYPE, ACL_EXT_TYPE}
      [] helper = "__get_transport_config" -> {ACL_EXT_TYPE}
      [] helper = "get_intf_acl_set" -> {"in", "out"}

GocRaises(helper, tree, arg) ==
    helper \in {"get_ospfv2_global", "get_ospfv2_area"} /\ ProtIndexRaises(tree, arg)

\* The destination structure after the call.
GocCall(helper, tree, arg) ==
    CASE helper = "get_ospfv2_global" -> get_ospfv2_global(tree, arg)
      [] helper = "get_ospfv2_area" -> get_ospfv2_area(tree, arg)
      [] helper = "get_area_by_id" -> get_area_by_id(tree, arg)
      [] helper = "__get_ipv4_config" -> GetIpv4Config(tree, arg)
      [] helper = "__get_transport_config" -> GetTransportConfig(tree)
      [] helper = "get_intf_acl_set" -> get_intf_acl_set(tree, arg)

\* The node the call returned, read from the structure.
GocNode(helper, tree, arg) ==
    CASE helper = "get_ospfv2_global" -> GlobalNode(tree, arg)
      [] helper = "get_ospfv2_area" -> AreaListNode(tree, arg)
      [] helper = "get_area_by_id" -> tree[AreaPos(tree, arg)]
      [] helper = "__get_ipv4_config" -> tree[Ipv4Key(arg)][ConfigKey(arg)]
      [] helper = "__get_transport_config" ->
            tree["openconfig-acl:transport"]["openconfig-acl:config"]
      [] helper = "get_intf_acl_set" -> IntfAclSetNode(tree, arg)

\* What callers do with the node: a key is set in a dict, an element is appended to
\* a list.  The structure with that done to the node the call returned.
GocStore(helper, tree, arg) ==
    CASE helper = "get_ospfv2_global" ->
            [tree EXCEPT ![arg + 1][Ospfv2Key][GlobalKey] =
                Put(@, "openconfig-network-instance:mpls", TRUE)]
      [] helper = "get_ospfv2_area" ->
            [tree EXCEPT ![arg + 1][Ospfv2Key][AreasKey][AreaKey] =
                Append(@, NewArea(AreaInt(2)))]
      [] helper = "get_area_by_id" ->
            [tree EXCEPT ![AreaPos(tree, arg)] =
                Put(@, "openconfig-network-instance:mpls", TRUE)]
      [] helper = "__get_ipv4_config" ->
            [tree EXCEPT ![Ipv4Key(arg)][ConfigKey(arg)] =
                Put(@, DstAddrKey, Cidr(NetAddr, 24))]
      [] helper = "__get_transport_config" ->
            [tree EXCEPT !["openconfig-acl:transport"]["openconfig-acl:config"] =
                Put(@, PortKey(FALSE), PortAny)]
      [] helper = "get_intf_acl_set" ->
            [tree EXCEPT ![AclSetsKey(arg)][AclSetKey(arg)] = Append(@, "set")]

GocInit ==
    /\ goc_helper \in GocHelpers
    /\ goc_tree \in GocTrees(goc_helper)
    /\ goc_arg \in GocArgs(goc_helper)
    /\ goc_returned = <<>>
    /\ goc_stored = <<>>
    /\ goc_pc = "first"

CallHelper ==
    /\ goc_pc \in {"first", "second"}
    /\ IF GocRaises(goc_helper, goc_tree, goc_arg)
       THEN /\ goc_pc' = "raised"
            /\ UNCHANGED <<goc_tree, goc_returned>>
       ELSE /\ goc_tree' = GocCall(goc_helper, goc_tree, goc_arg)
            /\ goc_returned' = Append(goc_returned, GocNode(goc_helper, goc_tree', goc_arg))
            /\ goc_pc' = IF goc_pc = "first" THEN "store" ELSE "done"
    /\ UNCHANGED <<goc_helper, goc_arg, goc_stored>>
    /\ UNCHANGED nonGocVars

StoreInNode ==
    /\ goc_pc = "store"
    /\ goc_tree' = GocStore(goc_helper, goc_tree, goc_arg)
    /\ goc_stored' = <<goc_tree', GocNode(goc_helper, goc_tree', goc_arg)>>
    /\ goc_pc' = "second"
    /\ UNCHANGED <<goc_helper, goc_arg, goc_returned>>
    /\ UNCHANGED nonGocVars

GocNext == CallHelper \/ StoreInNode

(***************************************************************************)
(* A caller that calls get_area_by_id several times on one area list, as   *)
(* set_ospfv2_areas and set_ospfv2_intf_areas do, and stores something in  *)
(* the entry a call returned.                                              *)
(***************************************************************************)
MaxCalls == 4

AreaIds == {AreaInt(0), AreaInt(1), AreaStr(0)}

AlInit ==
    /\ al_ospfv2_area = <<>>
    /\ al_requested = <<>>
    /\ al_returned = <<>>
    /\ al_appended = <<>>
    /\ al_pc = "call"

\* area = get_area_by_id(ospfv2_area, area_id)
CallGetAreaById ==
    /\ al_pc = "call"
    /\ Len(al_requested) < MaxCalls
    /\ \E area_id \in AreaIds :
          /\ al_ospfv2_area' = get_area_by_id(al_ospfv2_area, area_id)
          /\ al_requested' = Append(al_requested, area_id)
          /\ al_returned' = Append(al_returned, AreaPos(al_ospfv2_area', area_id))
          /\ al_appended' = Append(al_appended, Len(al_ospfv2_area') # Len(al_ospfv2_area))
    /\ al_pc' = "store"
    /\ UNCHANGED nonAlVars

\* The caller fills the entry the call returned (e.g. area["...:mpls"] = ...), or
\* leaves it as it is.
StoreInArea ==
    /\ al_pc = "store"
    /\ \E fill \in BOOLEAN :
          al_ospfv2_area' =
             IF fill
             THEN [al_ospfv2_area EXCEPT ![al_returned[Len(al_returned)]] =
                      Put(@, "openconfig-network-instance:mpls", TRUE)]
             ELSE al_ospfv2_area
    /\ al_pc' = "call"
    /\ UNCHANGED <<al_requested, al_returned, al_appended>>
    /\ UNCHANGED nonAlVars

AlNext == CallGetAreaById \/ StoreInArea

(***************************************************************************)
(* xe_ospfv2.py: process_ospf and its steps.  A step operator is given     *)
(* ospf_leftover, net_protocols, prot_index and ospf and gives the record  *)
(*   [raised, ospf_leftover, net_protocols]                                *)
(* with the two structures as the step leaves them; raised stands for an   *)
(* exception leaving the step (a del of a missing key, a failed lookup).   *)
(* A value is truthy, for the dicts and lists of the source tree, when it  *)
(* is not empty.                                                           *)
(***************************************************************************)
StepOut(raised, ospf_leftover, net_protocols) ==
    [raised |-> raised, ospf_leftover |-> ospf_leftover, net_protocols |-> net_protocols]

Truthy(d) == DOMAIN d # {}

\* d.get(k) is truthy, for a key that holds a dict or a list.
GetTruthy(d, k) == Has(d, k) /\ Truthy(d[k])

\* f'{value}'
StrOf(value) == [str |-> value]

RECURSIVE HasPath(_, _)
HasPath(d, path) ==
    IF path = <<>> THEN TRUE
    ELSE Has(d, Head(path)) /\ HasPath(d[Head(path)], Tail(path))

\* del d[k1][k2]...[kn], for a path that is present.
RECURSIVE DelPath(_, _)
DelPath(d, path) ==
    IF Len(path) = 1 THEN Del(d, path[1])
    ELSE [d EXCEPT ![Head(path)] = DelPath(@, Tail(path))]

\* The ospfv2 global container of protocol prot_index, with f applied to it.
WithGlobal(net_protocols, prot_index, f(_)) ==
    [get_ospfv2_global(net_protocols, prot_index) EXCEPT
        ![prot_index + 1][Ospfv2Key][GlobalKey] = f(@)]

\* dict.update
Update(d, other) == [k \in (DOMAIN d) \cup (DOMAIN other) |->
                        IF k \in DOMAIN other THEN other[k] ELSE d[k]]

set_network_config(ospf_leftover, net_protocols, prot_index, ospf) ==
    StepOut(FALSE,
            IF Get(ospf_leftover, "id", 0) # 0 THEN Del(ospf_leftover, "id") ELSE ospf_leftover,
            [net_protocols EXCEPT ![prot_index + 1] =
                Update(@,
                    [x \in {IdentifierKey, "openconfig-network-instance:name", NiConfigKey} |->
                        CASE x = IdentifierKey -> "OSPF"
                          [] x = "openconfig-network-instance:name" -> StrOf(Get(ospf, "id", None))
                          [] x = NiConfigKey ->
                               [y \in {IdentifierKey, "openconfig-network-instance:name",
                                       "openconfig-network-instance:enabled"} |->
                                   CASE y = IdentifierKey -> "OSPF"
                                     [] y = "openconfig-network-instance:name" ->
                                          StrOf(Get(ospf, "id", None))
                                     [] y = "openconfig-network-instance:enabled" -> TRUE]])])

GlobalConfig(log_adjacency_changes, cost_mode, hide_transit_only) ==
    [x \in {"openconfig-network-instance:log-adjacency-changes",
            "openconfig-network-instance:summary-route-cost-mode",
            "openconfig-network-instance:hide-transit-only-networks"} |->
        CASE x = "openconfig-network-instance:log-adjacency-changes" -> log_adjacency_changes
          [] x = "openconfig-network-instance:summary-route-cost-mode" -> cost_mode
          [] x = "openconfig-network-instance:hide-transit-only-networks" -> hide_transit_only]

\* The early return of lines 217-225 writes the key "config", lines 227-253 the key
\* NiConfigKey.
set_ospf2_global_config(ospf_leftover, net_protocols, prot_index, ospf) ==
    IF /\ ~Has(ospf, "router-id") /\ ~GetTruthy(ospf, "log-adjacency-changes")
       /\ ~GetTruthy(ospf, "compatible") /\ ~GetTruthy(ospf, "prefix-suppression")
    THEN StepOut(FALSE, ospf_leftover,
                 WithGlobal(net_protocols, prot_index,
                            LAMBDA g : Put(g, "config",
                                           GlobalConfig(FALSE, "RFC1583_COMPATIBLE", FALSE))))
    ELSE IF Has(ospf, "router-id") /\ ~Has(ospf_leftover, "router-id")
    THEN StepOut(TRUE, ospf_leftover, get_ospfv2_global(net_protocols, prot_index))
    ELSE StepOut(FALSE,
                 [k \in (DOMAIN ospf_leftover)
                          \ ((IF Has(ospf, "router-id") THEN {"router-id"} ELSE {})
                             \cup {"log-adjacency-changes", "compatible",
                                   "prefix-suppression"}) |-> ospf_leftover[k]],
                 WithGlobal(net_protocols, prot_index,
                    LAMBDA g : Put(g, NiConfigKey,
                        Update(GlobalConfig(
                                  GetTruthy(ospf, "log-adjacency-changes"),
                                  IF /\ GetTruthy(ospf, "compatible")
                                     /\ Has(ospf["compatible"], "rfc1583")
                                     /\ ospf["compatible"]["rfc1583"] = FALSE
                                  THEN "RFC2328_COMPATIBLE" ELSE "RFC1583_COMPATIBLE",
                                  GetTruthy(ospf, "prefix-suppression")),
                               IF Has(ospf, "router-id")
                               THEN [x \in {"openconfig-network-instance:router-id"} |->
                                        StrOf(ospf["router-id"])]
                               ELSE EmptyDict))))

EnabledConfig(prefix_config, prefix_enabled, enabled) ==
    [x \in {prefix_config} |-> [y \in {prefix_enabled} |-> enabled]]

set_graceful_restart_ietf(ospf_leftover, net_protocols, prot_index, ospf) ==
    IF /\ GetTruthy(ospf, "nsf-ietf") /\ GetTruthy(ospf["nsf-ietf"], "nsf")
       /\ Has(ospf["nsf-ietf"]["nsf"], "ietf")
    THEN IF ~HasPath(ospf_leftover, <<"nsf-ietf", "nsf", "ietf">>)
         THEN StepOut(TRUE, ospf_leftover, get_ospfv2_global(net_protocols, prot_index))
         ELSE StepOut(FALSE, DelPath(ospf_leftover, <<"nsf-ietf", "nsf", "ietf">>),
                      WithGlobal(net_protocols, prot_index,
                         LAMBDA g : Put(g, "openconfig-network-instance:graceful-restart",
                                        EnabledConfig(NiConfigKey,
                                            "openconfig-network-instance:enabled", TRUE))))
    ELSE StepOut(FALSE, ospf_leftover,
                 WithGlobal(net_protocols, prot_index,
                    LAMBDA g : Put(g, "openconfig-network-instance:graceful-restart",
                                   EnabledConfig(NiConfigKey,
                                       "openconfig-network-instance:enabled", FALSE))))

\* ospfv2_global with a (truthy or fresh) NiConfigKey dict, lines 270-271.
WithConfigDict(g) == IF GetTruthy(g, NiConfigKey) THEN g ELSE Put(g, NiConfigKey, EmptyDict)

set_vrf_lite(ospf_leftover, net_protocols, prot_index, ospf) ==
    IF GetTruthy(ospf, "capability") /\ Has(ospf["capability"], "vrf-lite")
    THEN IF ~Has(ospf_leftover, "capability")
         THEN StepOut(TRUE, ospf_leftover,
                      WithGlobal(net_protocols, prot_index,
                         LAMBDA g : [WithConfigDict(g) EXCEPT ![NiConfigKey] =
                                        Put(@, "openconfig-ospfv2-ext:capability-vrf-lite", TRUE)]))
         ELSE StepOut(FALSE, Del(ospf_leftover, "capability"),
                      WithGlobal(net_protocols, prot_index,
                         LAMBDA g : [WithConfigDict(g) EXCEPT ![NiConfigKey] =
                                        Put(@, "openconfig-ospfv2-ext:capability-vrf-lite", TRUE)]))
    ELSE StepOut(FALSE, ospf_leftover,
                 WithGlobal(net_protocols, prot_index,
                    LAMBDA g : [WithConfigDict(g) EXCEPT ![NiConfigKey] =
                                   Put(@, "openconfig-ospfv2-ext:capability-vrf-lite", FALSE)]))

\* The keys of default-information originate that are translated.
OriginateKeys == {"always", "metric", "metric-type"}

OriginateOcKey(k) ==
    CASE k = "always" -> "openconfig-ospfv2-ext:always"
      [] k = "metric" -> "openconfig-ospfv2-ext:metric"
      [] k = "metric-type" -> "openconfig-ospfv2-ext:metric-type"

OriginateConfig(originate) ==
    [x \in {"openconfig-ospfv2-ext:enabled"}
             \cup {OriginateOcKey(k) : k \in OriginateKeys \cap DOMAIN originate} |->
        IF x = "openconfig-ospfv2-ext:enabled" THEN TRUE
        ELSE IF x = "openconfig-ospfv2-ext:always" THEN TRUE
        ELSE IF x = "openconfig-ospfv2-ext:metric" THEN originate["metric"]
        ELSE originate["metric-type"]]

\* After set_vrf_lite the global container always has a NiConfigKey dict.
set_default_info_originate(ospf_leftover, net_protocols, prot_index, ospf) ==
    IF ~Has(ospf, "default-information") \/ ~Has(ospf["default-information"], "originate")
    THEN IF ~Has(GlobalNode(get_ospfv2_global(net_protocols, prot_index), prot_index), NiConfigKey)
         THEN StepOut(TRUE, ospf_leftover, get_ospfv2_global(net_protocols, prot_index))
         ELSE StepOut(FALSE, ospf_leftover,
                 WithGlobal(net_protocols, prot_index,
                    LAMBDA g : [g EXCEPT ![NiConfigKey] =
                        Put(@, "openconfig-ospfv2-ext:default-information-originate",
                            EnabledConfig("openconfig-ospfv2-ext:config",
                                          "openconfig-ospfv2-ext:enabled", FALSE))]))
    ELSE IF /\ OriginateKeys \cap DOMAIN ospf["default-information"]["originate"] # {}
            /\ ~HasPath(ospf_leftover, <<"default-information", "originate">>)
    THEN StepOut(TRUE, ospf_leftover, get_ospfv2_global(net_protocols, prot_index))
    ELSE StepOut(FALSE,
                 IF HasPath(ospf_leftover, <<"default-information", "originate">>)
                 THEN [ospf_leftover EXCEPT !["default-information"]["originate"] =
                         [k \in (DOMAIN @) \ (OriginateKeys
                                   \cap DOMAIN ospf["default-information"]["originate"]) |-> @[k]]]
                 ELSE ospf_leftover,
                 WithGlobal(net_protocols, prot_index,
                    LAMBDA g : [(IF Has(g, NiConfigKey) THEN g ELSE Put(g, NiConfigKey, EmptyDict))
                                  EXCEPT ![NiConfigKey] =
                        Put(@, "openconfig-ospfv2-ext:default-information-originate",
                            [x \in {"openconfig-ospfv2-ext:config"} |->
                                OriginateConfig(ospf["default-information"]["originate"])])]))

set_mpls_ldp_sync(ospf_leftover, net_protocols, prot_index, ospf) ==
    IF HasPath(ospf, <<"mpls", "ldp", "sync">>)
    THEN IF ~HasPath(ospf_leftover, <<"mpls", "ldp", "sync">>)
         THEN StepOut(TRUE, ospf_leftover,
                      WithGlobal(net_protocols, prot_index,
                         LAMBDA g : Put(g, "openconfig-network-instance:mpls",
                            [x \in {"openconfig-network-instance:igp-ldp-sync"} |->
                                EnabledConfig(NiConfigKey,
                                    "openconfig-network-instance:enabled", TRUE)])))
         ELSE StepOut(FALSE, DelPath(ospf_leftover, <<"mpls", "ldp", "sync">>),
                      WithGlobal(net_protocols, prot_index,
                         LAMBDA g : Put(g, "openconfig-network-instance:mpls",
                            [x \in {"openconfig-network-instance:igp-ldp-sync"} |->
                                EnabledConfig(NiConfigKey,
                                    "openconfig-network-instance:enabled", TRUE)])))
    ELSE StepOut(FALSE, ospf_leftover,
                 WithGlobal(net_protocols, prot_index,
                    LAMBDA g : Put(g, "openconfig-network-instance:mpls",
                       [x \in {"openconfig-network-instance:igp-ldp-sync"} |->
                           EnabledConfig(NiConfigKey,
                               "openconfig-network-instance:enabled", FALSE)])))

\* The sub-fields of a throttle timer group, and where the group goes in the output.
ThrottleFields(group) ==
    IF group = "lsa" THEN [start |-> "start-interval", hold |-> "hold-interval",
                           max |-> "max-interval"]
    ELSE [start |-> "spf-start", hold |-> "spf-hold", max |-> "spf-max-wait"]

ThrottleOcKey(group) ==
    IF group = "lsa" THEN "openconfig-network-instance:lsa-generation"
    ELSE "openconfig-network-instance:spf"

TimersKey == "openconfig-network-instance:timers"

ThrottleConfig(group, timers) ==
    [x \in {"openconfig-network-instance:initial-delay",
            "openconfig-network-instance:maximum-delay", "openconfig-ospfv2-ext:hold-time"} |->
        CASE x = "openconfig-network-instance:initial-delay" ->
                timers[ThrottleFields(group).start]
          [] x = "openconfig-network-instance:maximum-delay" ->
                timers[ThrottleFields(group).max]
          [] x = "openconfig-ospfv2-ext:hold-time" -> timers[ThrottleFields(group).hold]]

\* ospfv2_global with the group's config written (lines 413-418 / 438-443).
WithThrottle(g, group, config) ==
    LET g1 == IF ~Has(g, TimersKey) THEN Put(g, TimersKey, EmptyDict) ELSE g
        g2 == IF ~Has(g1[TimersKey], ThrottleOcKey(group))
              THEN [g1 EXCEPT ![TimersKey] = Put(@, ThrottleOcKey(group), EmptyDict)]
              ELSE g1
    IN [g2 EXCEPT ![TimersKey][ThrottleOcKey(group)] = Put(@, NiConfigKey, config)]

\* A test that takes no group for partial.
NeverPartial(fields, timers) == FALSE

\* Lines 407-408 and 419: some of the sub-fields, and not all of them.
IsPartial(fields, timers) ==
    fields \cap DOMAIN timers # {} /\ ~(fields \subseteq DOMAIN timers)

\* set_timers_lsa and set_timers_spf, which differ in the group only.
SetTimersThrottle(group, ospf_leftover, net_protocols, prot_index, ospf) ==
    IF ~HasPath(ospf, <<"timers", "throttle", group>>)
    THEN StepOut(FALSE, ospf_leftover, net_protocols)
    ELSE LET timers == ospf["timers"]["throttle"][group]
             fields == {ThrottleFields(group).start, ThrottleFields(group).hold,
                        ThrottleFields(group).max}
         IN IF IsPartial(fields, timers)
            THEN StepOut(TRUE, ospf_leftover, get_ospfv2_global(net_protocols, prot_index))
            ELSE StepOut(~HasPath(ospf_leftover, <<"timers", "throttle", group>>),
                         IF HasPath(ospf_leftover, <<"timers", "throttle", group>>)
                         THEN DelPath(ospf_leftover, <<"timers", "throttle", group>>)
                         ELSE ospf_leftover,
                         IF fields \subseteq DOMAIN timers
                         THEN WithGlobal(net_protocols, prot_index,
                                 LAMBDA g : WithThrottle(g, group, ThrottleConfig(group, timers)))
                         ELSE get_ospfv2_global(net_protocols, prot_index))

set_timers_lsa(ospf_leftover, net_protocols, prot_index, ospf) ==
    SetTimersThrottle("lsa", ospf_leftover, net_protocols, prot_index, ospf)

set_timers_spf(ospf_leftover, net_protocols, prot_index, ospf) ==
    SetTimersThrottle("spf", ospf_leftover, net_protocols, prot_index, ospf)

(***************************************************************************)
(* check_areas.  Area ids are AreaInt(n) as read from the device and        *)
(* AreaStr(0) for the default "0" of a network statement without an area.  *)
(***************************************************************************)
\* get_interfaces_by_area as one call: the statement loop over the sorted list.
RECURSIVE BindAll(_, _, _)
BindAll(sorted, n, intfs) ==
    IF n = 0 THEN [processed |-> {}, by_area |-> EmptyDict]
    ELSE BindInterfaces(sorted[n], intfs, 1, BindAll(sorted, n - 1, intfs))

GetInterfacesByAreaRaises(stmts) ==
    \E i \in 1..Len(stmts) :
        BinaryMergeRaises(Get(stmts[i], "ip", <<>>), Get(stmts[i], "mask", <<>>))

get_interfaces_by_area(stmts, intfs) == BindAll(Sorted(stmts), Len(stmts), intfs).by_area

RECURSIVE NetworkAreas(_, _, _)
NetworkAreas(stmts, n, area_id_set) ==
    IF n = 0 THEN <<>>
    ELSE IF Get(stmts[n], "area", AreaStr(0)) \in area_id_set
    THEN NetworkAreas(stmts, n - 1, area_id_set)
    ELSE Append(NetworkAreas(stmts, n - 1, area_id_set),
                [x \in {"id"} |-> Get(stmts[n], "area", AreaStr(0))])

populate_area_list(ospf) ==
    Get(ospf, "area", <<>>)
        \o NetworkAreas(Get(ospf, "network", <<>>), Len(Get(ospf, "network", <<>>)),
                        {Get(ospf, "area", <<>>)[i]["id"] :
                            i \in 1..Len(Get(ospf, "area", <<>>))})

\* A test that finds area 0 in every list.
area_0_assumed(area_list) == TRUE

\* area["id"] == 0: false for the string "0".
check_for_area_0(area_list) == \E i \in 1..Len(area_list) : area_list[i]["id"] = AreaInt(0)

\* int(area["id"])
IntOfArea(area_id) == area_id.v

\* The guard of the leftover updates of an area: area_key indexes the same area in
\* ospf_leftover["area"]; a leftover without "area" raises KeyError.
LeftoverAreaRaises(ospf_leftover) == ~Has(ospf_leftover, "area")

IsLeftoverArea(ospf_leftover, area, area_key) ==
    /\ area_key < Len(ospf_leftover["area"])
    /\ area["id"] = ospf_leftover["area"][area_key + 1]["id"]

\* set_traffic_eng: the leftover, and whether traffic engineering is enabled.
TrafficEngIndex(area_id, ospf) ==
    IF HasPath(ospf, <<"mpls", "traffic-eng", "area">>)
    THEN LET ids == ospf["mpls"]["traffic-eng"]["area"]
         IN IF \E i \in 1..Len(ids) : ids[i] = area_id
            THEN CHOOSE i \in 1..Len(ids) :
                    ids[i] = area_id /\ \A j \in 1..(i - 1) : ids[j] # area_id
            ELSE 0
    ELSE 0

set_traffic_eng(area_by_id, ospf, ospf_leftover) ==
    [area_by_id |-> Put(area_by_id, "openconfig-network-instance:mpls",
                        EnabledConfig(NiConfigKey,
                            "openconfig-network-instance:traffic-engineering-enabled",
                            TrafficEngIndex(area_by_id[IdentifierKey], ospf) > 0)),
     ospf_leftover |->
        IF TrafficEngIndex(area_by_id[IdentifierKey], ospf) > 0
        THEN [ospf_leftover EXCEPT
                !["mpls"]["traffic-eng"]["area"]
                 [TrafficEngIndex(area_by_id[IdentifierKey], ospf)] = None]
        ELSE ospf_leftover]

VirtualLinkOf(v_link) ==
    [x \in {"openconfig-network-instance:remote-router-id", NiConfigKey} |->
        IF x = NiConfigKey
        THEN [y \in {"openconfig-network-instance:remote-router-id"} |-> v_link["id"]]
        ELSE v_link["id"]]

\* set_virtual_links, for an area whose leftover has "area" when it has virtual links.
set_virtual_links(area_by_id, area, area_key, ospf_leftover) ==
    IF ~Has(area, "virtual-link") \/ area["virtual-link"] = <<>>
    THEN [area_by_id |-> area_by_id, ospf_leftover |-> ospf_leftover]
    ELSE [area_by_id |->
            Put(area_by_id, "openconfig-network-instance:virtual-links",
                [x \in {"openconfig-network-instance:virtual-link"} |->
                    (IF HasPath(area_by_id, <<"openconfig-network-instance:virtual-links",
                                              "openconfig-network-instance:virtual-link">>)
                     THEN area_by_id["openconfig-network-instance:virtual-links"]
                                    ["openconfig-network-instance:virtual-link"]
                     ELSE <<>>)
                    \o [i \in 1..Len(area["virtual-link"]) |->
                           VirtualLinkOf(area["virtual-link"][i])]]),
          ospf_leftover |->
            IF IsLeftoverArea(ospf_leftover, area, area_key)
            THEN [ospf_leftover EXCEPT !["area"][area_key + 1]["virtual-link"] =
                    [i \in 1..Len(@) |->
                        IF i <= Len(area["virtual-link"]) THEN None ELSE @[i]]]
            ELSE ospf_leftover]

\* A stub config that is enabled whatever it is asked.
StubConfigEnabled(enabled) ==
    [x \in {"openconfig-ospfv2-ext:config"} |->
        [y \in {"openconfig-ospfv2-ext:enabled",
                "openconfig-ospfv2-ext:default-information-originate"} |-> TRUE]]

StubConfig(enabled) ==
    [x \in {"openconfig-ospfv2-ext:config"} |->
        [y \in {"openconfig-ospfv2-ext:enabled",
                "openconfig-ospfv2-ext:default-information-originate"} |-> enabled]]

NssaConfig(enabled, no_summary) ==
    [x \in {"openconfig-ospfv2-ext:config"} |->
        [y \in {"openconfig-ospfv2-ext:enabled",
                "openconfig-ospfv2-ext:default-information-originate",
                "openconfig-ospfv2-ext:no-summary"} |->
            IF y = "openconfig-ospfv2-ext:no-summary" THEN no_summary ELSE enabled]]

StubOptions(totally_stubby, stub, nssa, no_summary) ==
    [x \in {"openconfig-ospfv2-ext:totally-stubby", "openconfig-ospfv2-ext:stub",
            "openconfig-ospfv2-ext:nssa"} |->
        CASE x = "openconfig-ospfv2-ext:totally-stubby" -> StubConfig(totally_stubby)
          [] x = "openconfig-ospfv2-ext:stub" -> StubConfig(stub)
          [] x = "openconfig-ospfv2-ext:nssa" -> NssaConfig(nssa, no_summary)]

\* set_stub: [raised, area_by_id, ospf_leftover].
set_stub(area_by_id, area, area_key, ospf_leftover) ==
    IF Has(area, "stub") \/ Has(area, "nssa")
    THEN LET kind == IF Has(area, "stub") THEN "stub" ELSE "nssa"
             options ==
                IF kind = "stub"
                THEN IF Has(area["stub"], "no-summary")
                     THEN StubOptions(TRUE, FALSE, FALSE, FALSE)
                     ELSE StubOptions(FALSE, TRUE, FALSE, FALSE)
                ELSE StubOptions(FALSE, FALSE, TRUE, Has(area["nssa"], "no-summary"))
             written == Put(area_by_id, "openconfig-ospfv2-ext:stub-options", options)
         IN IF LeftoverAreaRaises(ospf_leftover)
            THEN [raised |-> TRUE, area_by_id |-> written, ospf_leftover |-> ospf_leftover]
            ELSE IF ~IsLeftoverArea(ospf_leftover, area, area_key)
            THEN [raised |-> FALSE, area_by_id |-> written, ospf_leftover |-> ospf_leftover]
            ELSE IF ~Has(ospf_leftover["area"][area_key + 1], kind)
            THEN [raised |-> TRUE, area_by_id |-> written, ospf_leftover |-> ospf_leftover]
            ELSE [raised |-> FALSE, area_by_id |-> written,
                  ospf_leftover |-> [ospf_leftover EXCEPT !["area"][area_key + 1] =
                                        Del(@, kind)]]
    ELSE [raised |-> FALSE, area_by_id |-> area_by_id, ospf_leftover |-> ospf_leftover]

PoliciesKey == "openconfig-network-instance:inter-area-propagation-policies"

PolicyKey == "openconfig-network-instance:inter-area-propagation-policy"

ServicePolicy(area_id, import_policy_prefix) ==
    [x \in {"openconfig-network-instance:src-area", "openconfig-network-instance:dst-area",
            NiConfigKey} |->
        CASE x = "openconfig-network-instance:src-area" -> AreaInt(0)
          [] x = "openconfig-network-instance:dst-area" -> area_id
          [] x = NiConfigKey ->
                [y \in {"openconfig-network-instance:src-area",
                        "openconfig-network-instance:dst-area",
                        "openconfig-network-instance:import-policy"} |->
                    CASE y = "openconfig-network-instance:src-area" -> AreaInt(0)
                      [] y = "openconfig-network-instance:dst-area" -> area_id
                      [] y = "openconfig-network-instance:import-policy" ->
                            <<import_policy_prefix>>]]

\* ospfv2_global with the policy appended (lines 371-385).
WithPolicy(g, service_policy) ==
    LET g1 == IF ~Has(g, PoliciesKey) THEN Put(g, PoliciesKey, EmptyDict) ELSE g
        g2 == IF ~Has(g1[PoliciesKey], PolicyKey)
              THEN [g1 EXCEPT ![PoliciesKey] = Put(@, PolicyKey, <<>>)]
              ELSE g1
    IN [g2 EXCEPT ![PoliciesKey][PolicyKey] = Append(@, service_policy)]

set_inter_area_propagation_policy(ospf_leftover, net_protocols, prot_index, area_key, area) ==
    IF Has(area, "id") /\ Has(area, "filter-list") /\ Len(area["filter-list"]) = 1
    THEN IF LeftoverAreaRaises(ospf_leftover)
         THEN StepOut(TRUE, ospf_leftover,
                      WithGlobal(net_protocols, prot_index,
                         LAMBDA g : WithPolicy(g, ServicePolicy(area["id"],
                                                   area["filter-list"][1]["prefix"]))))
         ELSE StepOut(FALSE,
                      IF /\ IsLeftoverArea(ospf_leftover, area, area_key)
                         /\ Has(ospf_leftover["area"][area_key + 1], "filter-list")
                      THEN [ospf_leftover EXCEPT !["area"][area_key + 1] =
                              Del(@, "filter-list")]
                      ELSE ospf_leftover,
                      WithGlobal(net_protocols, prot_index,
                         LAMBDA g : WithPolicy(g, ServicePolicy(area["id"],
                                                   area["filter-list"][1]["prefix"]))))
    ELSE StepOut(FALSE, ospf_leftover, net_protocols)

(***************************************************************************)
(* The interface of an area (set_ospfv2_intf_areas and what it calls).  An  *)
(* interface of vrf_interfaces is [type, name, ip]; its leftover is the     *)
(* entry of the same name under config_leftover's interfaces of that type,  *)
(* which has "ip" and "ospf" wherever the interface has them.              *)
(***************************************************************************)
ospf_network_types ==
    [x \in {"broadcast", "point-to-point", "non-broadcast"} |->
        CASE x = "broadcast" -> "BROADCAST_NETWORK"
          [] x = "point-to-point" -> "POINT_TO_POINT_NETWORK"
          [] x = "non-broadcast" -> "NON_BROADCAST_NETWORK"]

\* "ip" in intf and "ospf" in intf["ip"] and key in intf["ip"]["ospf"]
HasOspfKey(intf, key) == HasPath(intf, <<"ip", "ospf", key>>)

\* A leftover update that marks the key as translated instead of deleting it.
MarkOspfKey(intf_leftover, key) ==
    [intf_leftover EXCEPT !["ip"]["ospf"] = Put(@, "translated", TRUE)]

\* if key in intf_leftover["ip"]["ospf"]: del intf_leftover["ip"]["ospf"][key]
DelOspfKey(intf_leftover, key) ==
    IF Has(intf_leftover["ip"]["ospf"], key)
    THEN [intf_leftover EXCEPT !["ip"]["ospf"] = Del(@, key)]
    ELSE intf_leftover

IntfOut(intf_leftover, intf_config) ==
    [intf_leftover |-> intf_leftover, intf_config |-> intf_config]

set_network_type(intf, intf_leftover, intf_config) ==
    IF /\ HasOspfKey(intf, "network")
       /\ Len(intf["ip"]["ospf"]["network"]) > 0
       /\ intf["ip"]["ospf"]["network"][1] \in DOMAIN ospf_network_types
    THEN IntfOut(DelOspfKey(intf_leftover, "network"),
                 Put(intf_config, "openconfig-network-instance:network-type",
                     ospf_network_types[intf["ip"]["ospf"]["network"][1]]))
    ELSE IntfOut(intf_leftover, intf_config)

set_metric(intf, intf_leftover, intf_config) ==
    IF HasOspfKey(intf, "cost")
    THEN IntfOut(DelOspfKey(intf_leftover, "cost"),
                 Put(intf_config, "openconfig-network-instance:metric",
                     intf["ip"]["ospf"]["cost"]))
    ELSE IntfOut(intf_leftover, intf_config)

set_priority(intf, intf_leftover, intf_config) ==
    IF HasOspfKey(intf, "priority")
    THEN IntfOut(DelOspfKey(intf_leftover, "priority"),
                 Put(intf_config, "openconfig-network-instance:priority",
                     intf["ip"]["ospf"]["priority"]))
    ELSE IntfOut(intf_leftover, intf_config)

\* set_passive: [ospf_leftover, intf_config].  The for-else writes the key "passive".
set_passive(ospf, ospf_leftover, intf_config, intf_name) ==
    [ospf_leftover |-> IF Has(ospf_leftover, "passive-interface")
                       THEN Del(ospf_leftover, "passive-interface")
                       ELSE ospf_leftover,
     intf_config |->
        IF HasPath(ospf, <<"passive-interface", "interface">>)
        THEN IF \E i \in 1..Len(ospf["passive-interface"]["interface"]) :
                    ospf["passive-interface"]["interface"][i]["name"] = intf_name
             THEN Put(intf_config, "openconfig-network-instance:passive", TRUE)
             ELSE Put(intf_config, "passive", FALSE)
        ELSE intf_config]

\* is_bfd_enabled: [enabled, intf_leftover].
is_bfd_enabled(intf, intf_leftover) ==
    IF HasOspfKey(intf, "bfd")
    THEN [enabled |-> TRUE, intf_leftover |-> DelOspfKey(intf_leftover, "bfd")]
    ELSE [enabled |-> FALSE, intf_leftover |-> intf_leftover]

NeighborOf(ospf_neighbor) ==
    [x \in {"openconfig-network-instance:router-id", NiConfigKey} |->
        IF x = NiConfigKey
        THEN [y \in {"openconfig-network-instance:router-id",
                     "openconfig-network-instance:metric"} |->
                IF y = "openconfig-network-instance:metric"
                THEN IF HasPath(ospf_neighbor, <<"cost-database-filter-container", "cost">>)
                     THEN ospf_neighbor["cost-database-filter-container"]["cost"]
                     ELSE ""
                ELSE Get(ospf_neighbor, "ip", "")]
        ELSE Get(ospf_neighbor, "ip", "")]

\* set_neighbors: [neighbors, ospf_leftover]; every neighbor of the process goes to
\* every interface, and its leftover entry becomes None.
set_neighbors(ospf, ospf_leftover) ==
    IF Has(ospf, "neighbor")
    THEN [neighbors |-> [x \in {"neighbor"} |->
                            [i \in 1..Len(ospf["neighbor"]) |-> NeighborOf(ospf["neighbor"][i])]],
          ospf_leftover |->
            IF ospf["neighbor"] = <<>> THEN ospf_leftover
            ELSE [ospf_leftover EXCEPT !["neighbor"] =
                    [i \in 1..Len(@) |-> IF i <= Len(ospf["neighbor"]) THEN None ELSE @[i]]]]
    ELSE [neighbors |-> [x \in {"neighbor"} |-> <<>>], ospf_leftover |-> ospf_leftover]

IntfTimerKeys == {"hello-interval", "retransmit-interval", "dead-interval"}

IntfTimerOcKey(key) ==
    CASE key = "hello-interval" -> "openconfig-network-instance:hello-interval"
      [] key = "retransmit-interval" -> "openconfig-network-instance:retransmission-interval"
      [] key = "dead-interval" -> "openconfig-network-instance:dead-interval"

\* The keys set_timers translates: dead-interval only with "seconds" in it.
IntfTimersSet(intf) ==
    {key \in IntfTimerKeys :
        /\ HasOspfKey(intf, key)
        /\ key = "dead-interval" => Has(intf["ip"]["ospf"]["dead-interval"], "seconds")}

\* set_timers: [timers, intf_leftover].
set_timers(intf, intf_leftover) ==
    [timers |-> [x \in {NiConfigKey} |->
                    [y \in {IntfTimerOcKey(key) : key \in IntfTimersSet(intf)} |->
                        CASE y = "openconfig-network-instance:hello-interval" ->
                                intf["ip"]["ospf"]["hello-interval"]
                          [] y = "openconfig-network-instance:retransmission-interval" ->
                                intf["ip"]["ospf"]["retransmit-interval"]
                          [] y = "openconfig-network-instance:dead-interval" ->
                                intf["ip"]["ospf"]["dead-interval"]["seconds"]]],
     intf_leftover |->
        IF IntfTimersSet(intf) = {} THEN intf_leftover
        ELSE [intf_leftover EXCEPT !["ip"]["ospf"] =
                [k \in (DOMAIN @) \ IntfTimersSet(intf) |-> @[k]]]]

InterfacesKey == "openconfig-network-instance:interfaces"

InterfaceKey == "openconfig-network-instance:interface"

AreaInterface(intf_name, intf_config, bfd, neighbors, timers) ==
    [x \in {"openconfig-network-instance:id", NiConfigKey,
            "openconfig-network-instance:enable-bfd",
            "openconfig-network-instance:neighbors", TimersKey} |->
        CASE x = "openconfig-network-instance:id" -> intf_name
          [] x = NiConfigKey -> intf_config
          [] x = "openconfig-network-instance:enable-bfd" ->
                EnabledConfig(NiConfigKey, "openconfig-network-instance:enabled", bfd)
          [] x = "openconfig-network-instance:neighbors" -> neighbors
          [] x = TimersKey -> timers]

\* area_intf with the interface appended (lines 457-468).
WithInterface(area_intf, interface) ==
    LET a1 == IF ~Has(area_intf, InterfacesKey)
              THEN Put(area_intf, InterfacesKey, [x \in {InterfaceKey} |-> <<>>])
              ELSE area_intf
        a2 == IF ~Has(a1[InterfacesKey], InterfaceKey)
              THEN [a1 EXCEPT ![InterfacesKey] = Put(@, InterfaceKey, <<>>)]
              ELSE a1
    IN [a2 EXCEPT ![InterfacesKey][InterfaceKey] = Append(@, interface)]

\* set_ospfv2_intf_areas: [ospfv2_area, intf_leftover, ospf_leftover].
set_ospfv2_intf_areas(ospfv2_area, intf_leftover, area, intf_name, intf, ospf, ospf_leftover) ==
    Bind(set_network_type(intf, intf_leftover,
                          [x \in {"openconfig-network-instance:id"} |-> intf_name]),
         LAMBDA s1 :
    Bind(set_metric(intf, s1.intf_leftover, s1.intf_config), LAMBDA s2 :
    Bind(set_passive(ospf, ospf_leftover, s2.intf_config, intf_name), LAMBDA s3 :
    Bind(set_priority(intf, s2.intf_leftover, s3.intf_config), LAMBDA s4 :
    Bind(is_bfd_enabled(intf, s4.intf_leftover), LAMBDA s5 :
    Bind(set_neighbors(ospf, s3.ospf_leftover), LAMBDA s6 :
    Bind(set_timers(intf, s5.intf_leftover), LAMBDA s7 :
    Bind(get_area_by_id(ospfv2_area, area["id"]), LAMBDA areas :
        [ospfv2_area |->
            [areas EXCEPT ![AreaPos(ospfv2_area, area["id"])] =
                WithInterface(@, AreaInterface(intf_name, s4.intf_config, s5.enabled,
                                               s6.neighbors, s7.timers))],
         intf_leftover |-> s7.intf_leftover,
         ospf_leftover |-> s6.ospf_leftover]))))))))

\* get_intf_by_intf_number: the position of the interface, 0 for the None of no match.
get_intf_by_intf_number(intf_attr, intf_number) ==
    IF \E i \in 1..Len(intf_attr) : intf_attr[i]["name"] = intf_number
    THEN CHOOSE i \in 1..Len(intf_attr) :
            /\ intf_attr[i]["name"] = intf_number
            /\ \A j \in 1..(i - 1) : intf_attr[j]["name"] # intf_number
    ELSE 0

(***************************************************************************)
(* check_areas, one area of the loop of lines 324-336 at a time.  The      *)
(* state of the loop is [raised, ospf_leftover, intf_config_leftover,      *)
(* net_protocols]; ospfv2_area is the list at AreaListNode.                *)
(***************************************************************************)
AreaOut(raised, ospf_leftover, intf_config_leftover, net_protocols) ==
    [raised |-> raised, ospf_leftover |-> ospf_leftover,
     intf_config_leftover |-> intf_config_leftover, net_protocols |-> net_protocols]

\* set_ospfv2_areas: [raised, ospfv2_area, ospf_leftover].
set_ospfv2_areas(ospfv2_area, area, area_key, ospf, ospf_leftover) ==
    Bind(get_area_by_id(ospfv2_area, area["id"]), LAMBDA areas :
    Bind(AreaPos(ospfv2_area, area["id"]), LAMBDA pos :
    Bind(set_traffic_eng(areas[pos], ospf, ospf_leftover), LAMBDA te :
    Bind(set_virtual_links(te.area_by_id, area, area_key, te.ospf_leftover), LAMBDA vl :
    Bind(set_stub(vl.area_by_id, area, area_key, vl.ospf_leftover), LAMBDA sb :
        [raised |-> sb.raised,
         ospfv2_area |-> [areas EXCEPT ![pos] = sb.area_by_id],
         ospf_leftover |-> sb.ospf_leftover])))))

WithAreaList(net_protocols, prot_index, ospfv2_area) ==
    [net_protocols EXCEPT ![prot_index + 1][Ospfv2Key][AreasKey][AreaKey] = ospfv2_area]

\* The interface loop of lines 331-336 over the first n interfaces bound to the area.
RECURSIVE AreaInterfaces(_, _, _, _, _)
AreaInterfaces(intfs, n, area, ospf, acc) ==
    IF n = 0 THEN acc
    ELSE Bind(AreaInterfaces(intfs, n - 1, area, ospf, acc), LAMBDA s :
         Bind(get_intf_by_intf_number(Get(s.intf_config_leftover, intfs[n].type, <<>>),
                                      intfs[n].name), LAMBDA pos :
         Bind(set_ospfv2_intf_areas(s.ospfv2_area,
                                    s.intf_config_leftover[intfs[n].type][pos], area,
                                    FullIntfName(intfs[n]), intfs[n], ospf, s.ospf_leftover),
              LAMBDA r :
            [ospfv2_area |-> r.ospfv2_area,
             intf_config_leftover |->
                [s.intf_config_leftover EXCEPT ![intfs[n].type][pos] = r.intf_leftover],
             ospf_leftover |-> r.ospf_leftover])))

\* One iteration of the loop of line 324, for the area at area_key (0-based).
CheckArea(s, prot_index, area_key, area, ospf, area_0_present, by_area) ==
    Bind(set_ospfv2_areas(AreaListNode(s.net_protocols, prot_index), area, area_key, ospf,
                          s.ospf_leftover), LAMBDA a :
    IF a.raised
    THEN AreaOut(TRUE, a.ospf_leftover, s.intf_config_leftover,
                 WithAreaList(s.net_protocols, prot_index, a.ospfv2_area))
    ELSE
    Bind(IF area_0_present /\ IntOfArea(area["id"]) # 0
         THEN set_inter_area_propagation_policy(
                 a.ospf_leftover, WithAreaList(s.net_protocols, prot_index, a.ospfv2_area),
                 prot_index, area_key, area)
         ELSE StepOut(FALSE, a.ospf_leftover,
                      WithAreaList(s.net_protocols, prot_index, a.ospfv2_area)), LAMBDA p :
    IF p.raised
    THEN AreaOut(TRUE, p.ospf_leftover, s.intf_config_leftover, p.net_protocols)
    ELSE
    Bind(AreaInterfaces(Get(by_area, area["id"], <<>>), Len(Get(by_area, area["id"], <<>>)),
                        area, ospf,
                        [ospfv2_area |-> AreaListNode(p.net_protocols, prot_index),
                         intf_config_leftover |-> s.intf_config_leftover,
                         ospf_leftover |-> p.ospf_leftover]), LAMBDA i :
        AreaOut(FALSE, i.ospf_leftover, i.intf_config_leftover,
                WithAreaList(p.net_protocols, prot_index, i.ospfv2_area)))))

(***************************************************************************)
(* Inputs of configure_xe_ospf: OSPF processes as the NED gives them.      *)
(***************************************************************************)
Single(k, v) == [x \in {k} |-> v]

Proc(id) == Single("id", id)

\* Processes that differ in the global settings.
GlobalProcs ==
    {Proc(1),
     Put(Proc(1), "router-id", "1.1.1.1"),
     Put(Proc(1), "log-adjacency-changes", Single("detail", TRUE)),
     Put(Proc(1), "compatible", Single("rfc1583", FALSE)),
     Put(Put(Proc(1), "router-id", "1.1.1.1"), "prefix-suppression", Single("enable", TRUE)),
     Put(Proc(1), "nsf-ietf", Single("nsf", Single("ietf", EmptyDict))),
     Put(Proc(1), "capability", Single("vrf-lite", TRUE)),
     Put(Proc(1), "default-information", Single("originate", EmptyDict)),
     Put(Proc(1), "default-information",
         Single("originate", Put(Put(Single("always", TRUE), "metric", 10), "route-map", "RM"))),
     Put(Proc(1), "mpls", Single("ldp", Single("sync", TRUE)))}

\* A throttle group with the sub-fields of the given positions.
ThrottleGroup(group, positions) ==
    [x \in {IF i = 1 THEN ThrottleFields(group).start
            ELSE IF i = 2 THEN ThrottleFields(group).hold
            ELSE ThrottleFields(group).max : i \in positions} |->
        IF x = ThrottleFields(group).start THEN 50
        ELSE IF x = ThrottleFields(group).hold THEN 200 ELSE 5000]

GroupShapes == {{}, {1}, {1, 3}, {1, 2, 3}}

TimerProcs ==
    {Put(Proc(2), "timers", Single("throttle", Single("lsa", ThrottleGroup("lsa", l)))) :
        l \in GroupShapes}
    \cup {Put(Proc(2), "timers", Single("throttle", Single("spf", ThrottleGroup("spf", s)))) :
        s \in GroupShapes}
    \cup {Put(Proc(2), "timers",
              Single("throttle", Put(Single("lsa", ThrottleGroup("lsa", l)),
                                     "spf", ThrottleGroup("spf", s)))) :
        l \in GroupShapes \ {{}}, s \in GroupShapes \ {{}}}
    \cup {Put(Proc(2), "timers", Single("pacing", 10))}

Area(id) == Single("id", AreaInt(id))

FilterList(names) == [i \in 1..Len(names) |-> Put(Single("prefix", names[i]), "direction", "in")]

AreaShapes(id) ==
    {Area(id),
     Put(Area(id), "stub", EmptyDict),
     Put(Area(id), "stub", Single("no-summary", TRUE)),
     Put(Area(id), "nssa", EmptyDict),
     Put(Area(id), "nssa", Single("no-summary", TRUE)),
     Put(Put(Area(id), "stub", EmptyDict), "nssa", Single("no-summary", TRUE)),
     Put(Area(id), "filter-list", FilterList(<<"PL1">>)),
     Put(Area(id), "filter-list", FilterList(<<"PL1", "PL2">>)),
     Put(Put(Area(id), "filter-list", FilterList(<<"PL1">>)), "stub", EmptyDict),
     Put(Area(id), "virtual-link", <<Single("id", "2.2.2.2"), Single("id", "3.3.3.3")>>)}

AreaLists ==
    {<<a>> : a \in AreaShapes(1)}
    \cup {<<Area(0), a>> : a \in AreaShapes(1)}
    \cup {<<a, Area(0)>> : a \in AreaShapes(1)}
    \cup {<<Put(Area(0), "filter-list", FilterList(<<"PL0">>)),
            Put(Area(1), "filter-list", FilterList(<<"PL1">>))>>,
          <<Put(Area(1), "filter-list", FilterList(<<"PL1">>)), Area(0),
            Put(Area(2), "filter-list", FilterList(<<"PL2">>))>>}

AreaProcs == {Put(Proc(3), "area", areas) : areas \in AreaLists}

\* Processes with network statements, which bind the interfaces.
NetworkProcs ==
    {Put(Proc(4), "network", <<Stmt(<<10, 0, 0, 0>>, <<0, 0, 0, 255>>, AreaInt(1))>>),
     Put(Proc(4), "network", <<Stmt(<<10, 0, 0, 0>>, <<0, 0, 0, 255>>, AreaInt(0)),
                               Stmt(<<10, 0, 1, 0>>, <<0, 0, 0, 255>>, AreaInt(1))>>),
     Put(Proc(4), "network", <<Del(Stmt(<<10, 0, 0, 0>>, <<0, 0, 255, 255>>, AreaInt(0)),
                                   "area")>>),
     Put(Proc(4), "network", <<Del(Stmt(<<10, 0, 0, 0>>, <<>>, AreaInt(1)), "mask")>>),
     Put(Put(Proc(4), "network", <<Stmt(<<10, 0, 0, 0>>, <<0, 0, 255, 255>>, AreaInt(1))>>),
         "area", <<Area(0), Put(Put(Area(1), "filter-list", FilterList(<<"PL1">>)),
                                "nssa", EmptyDict)>>),
     Put(Put(Proc(4), "network", <<Del(Stmt(<<10, 0, 0, 0>>, <<0, 0, 255, 255>>, AreaInt(0)),
                                       "area")>>),
         "area", <<Put(Area(1), "filter-list", FilterList(<<"PL1">>))>>),
     Put(Put(Put(Proc(4), "network",
                 <<Stmt(<<10, 0, 0, 0>>, <<0, 0, 255, 255>>, AreaInt(1))>>),
             "passive-interface",
             Single("interface", <<Single("name", <<"GigabitEthernet", 1>>)>>)),
         "neighbor", <<Put(Single("ip", "10.0.0.9"),
                           "cost-database-filter-container", Single("cost", 5)),
                       Single("ip", "10.0.0.8")>>),
     Put(Put(Proc(4), "network",
             <<Stmt(<<10, 0, 0, 0>>, <<0, 0, 255, 255>>, AreaInt(1))>>),
         "mpls", Single("traffic-eng", Single("area", <<AreaInt(2), AreaInt(1)>>))),
     Put(Proc(4), "network", <<Stmt(<<10, 0, 0, 0>>, <<0, 0, 0, 255>>, AreaInt(1)),
                               Stmt(<<10, 0, 1, 0>>, <<0, 0, 0, 255>>, AreaInt(1))>>),
     Put(Put(Proc(4), "network", <<Stmt(<<10, 0, 0, 0>>, <<0, 0, 0, 255>>, AreaInt(1)),
                                   Stmt(<<10, 0, 1, 0>>, <<0, 0, 0, 255>>, AreaInt(1))>>),
         "area", <<Area(1)>>),
     Put(Proc(4), "network", <<Del(Stmt(<<10, 0, 0, 0>>, <<0, 0, 0, 255>>, AreaInt(0)),
                                   "area"),
                               Stmt(<<10, 0, 1, 0>>, <<0, 0, 0, 255>>, AreaInt(0))>>)}

Processes == GlobalProcs \cup TimerProcs \cup AreaProcs \cup NetworkProcs

\* The processes that lists of several are made of.
FewProcesses ==
    {Put(Proc(1), "router-id", "1.1.1.1"),
     Put(Put(Proc(2), "vrf", "blue"), "timers",
         Single("throttle", Single("lsa", ThrottleGroup("lsa", {1, 2, 3})))),
     Put(Put(Proc(3), "vrf", "red"), "area", <<Area(0), Put(Area(1), "stub", EmptyDict)>>),
     Put(Proc(4), "timers", Single("throttle", Single("spf", ThrottleGroup("spf", {2}))))}

MaxOspf == 2

OspfLists ==
    {<<p>> : p \in Processes} \cup {<<Put(p, "vrf", "blue")>> : p \in Processes}
    \cup SeqsUpTo(FewProcesses, MaxOspf)

\* config_before["tailf-ned-cisco-ios:router"], or {} without it.
Routers == {EmptyDict, Single("bgp", <<>>)} \cup {Single("ospf", l) : l \in OspfLists}

InstanceTypes == {"DEFAULT_INSTANCE", "L3VRF", "L2VSI"}

\* An interface of the device with OSPF settings.
OspfIntf(name, address, settings) ==
    [name |-> <<name>>,
     ip |-> [x \in {"address", "ospf"} |->
                IF x = "address" THEN [primary |-> [address |-> address]] ELSE settings]]

IntfSettings ==
    [x \in {"network", "cost", "priority", "bfd", "hello-interval", "dead-interval",
            "authentication"} |->
        CASE x = "network" -> <<"point-to-point">>
          [] x = "cost" -> 20
          [] x = "priority" -> 3
          [] x = "bfd" -> EmptyDict
          [] x = "hello-interval" -> 5
          [] x = "dead-interval" -> Single("seconds", 20)
          [] x = "authentication" -> Single("key-chain", "KC")]

\* config_before["tailf-ned-cisco-ios:interface"], by interface type.
InterfaceConfigs ==
    {EmptyDict,
     Single(<<"GigabitEthernet">>,
            <<OspfIntf(1, <<10, 0, 0, 5>>, IntfSettings),
              [name |-> <<2>>, ip |-> [address |-> [primary |-> [address |-> <<10, 0, 1, 7>>]]]],
              OspfIntf(3, <<10, 0, 2, 1>>,
                       Put(Single("network", <<"point-to-multipoint">>),
                           "dead-interval", Single("minimal", TRUE)))>>)}

\* vrf_interfaces: the interfaces of the instance, each with its type.
VrfInterfacesOf(interface_config) ==
    IF DOMAIN interface_config = {} THEN <<>>
    ELSE [i \in 1..Len(interface_config[<<"GigabitEthernet">>]) |->
            [x \in {"type", "name", "ip"} |->
                IF x = "type" THEN <<"GigabitEthernet">>
                ELSE interface_config[<<"GigabitEthernet">>][i][x]]]

\* The protocol list of the instance before the pass.
ProtocolLists == {<<>>, <<Single(IdentifierKey, "BGP")>>}

(***************************************************************************)
(* configure_xe_ospf as a state machine: the loop over the OSPF list, the  *)
(* steps of process_ospf for a process that applies, and the area loop of  *)
(* check_areas.  ospf_router_before and ospf_intf_before are the source    *)
(* tree's router and interface containers, ospf_router_leftover and        *)
(* ospf_intf_leftover the leftover tree's, which starts as a deep copy.    *)
(***************************************************************************)
\* A test that lets every process through.
AppliesAlways(instance_type, ospf) == TRUE

\* The test of lines 40-41.
AppliesTo(instance_type, ospf) ==
    \/ instance_type = "L3VRF" /\ Has(ospf, "vrf")
    \/ instance_type = "DEFAULT_INSTANCE" /\ ~Has(ospf, "vrf")

OspfInit ==
    /\ ospf_instance_type \in InstanceTypes
    /\ ospf_router_before \in Routers
    /\ ospf_intf_before \in InterfaceConfigs
    /\ ospf_vrf_interfaces = VrfInterfacesOf(ospf_intf_before)
    /\ ospf_router_leftover = ospf_router_before
    /\ ospf_intf_leftover = ospf_intf_before
    /\ ospf_net_protocols \in ProtocolLists
    /\ ospf_index = 0
    /\ ospf_step = 0
    /\ ospf_area_list = <<>>
    /\ ospf_area_key = 0
    /\ ospf_area_0_present = FALSE
    /\ ospf_by_area = EmptyDict
    /\ ospf_earlier = <<>>
    /\ ospf_pc = "call"

OspfSource == <<ospf_instance_type, ospf_router_before, ospf_intf_before, ospf_vrf_interfaces>>

AreaLoopVars == <<ospf_area_list, ospf_area_key, ospf_area_0_present, ospf_by_area>>

CurrentOspf == ospf_router_before["ospf"][ospf_index + 1]

CurrentLeftover == ospf_router_leftover["ospf"][ospf_index + 1]

\* prot_index of process_ospf: the entry appended by line 189.
ProtIndex == Len(ospf_net_protocols) - 1

\* Lines 34-37: no OSPF list.
ReturnNoOspf ==
    /\ ospf_pc = "call"
    /\ ~Has(ospf_router_before, "ospf")
    /\ ospf_pc' = "returned"
    /\ UNCHANGED <<OspfSource, ospf_earlier, ospf_router_leftover, ospf_intf_leftover, ospf_net_protocols,
                   ospf_index, ospf_step, AreaLoopVars>>
    /\ UNCHANGED nonOspfVars

EnterLoop ==
    /\ ospf_pc = "call"
    /\ Has(ospf_router_before, "ospf")
    /\ ospf_pc' = "loop"
    /\ ospf_index' = 0
    /\ UNCHANGED <<OspfSource, ospf_earlier, ospf_router_leftover, ospf_intf_leftover, ospf_net_protocols,
                   ospf_step, AreaLoopVars>>
    /\ UNCHANGED nonOspfVars

\* Line 39, the list exhausted.
ReturnFromConfigure ==
    /\ ospf_pc = "loop"
    /\ ospf_index >= Len(ospf_router_before["ospf"])
    /\ ospf_pc' = "returned"
    /\ UNCHANGED <<OspfSource, ospf_earlier, ospf_router_leftover, ospf_intf_leftover, ospf_net_protocols,
                   ospf_index, ospf_step, AreaLoopVars>>
    /\ UNCHANGED nonOspfVars

\* Lines 40-41, a process that does not apply to the instance.
SkipOspf ==
    /\ ospf_pc = "loop"
    /\ ospf_index < Len(ospf_router_before["ospf"])
    /\ ~AppliesTo(ospf_instance_type, CurrentOspf)
    /\ ospf_index' = ospf_index + 1
    /\ UNCHANGED <<OspfSource, ospf_earlier, ospf_router_leftover, ospf_intf_leftover, ospf_net_protocols,
                   ospf_pc, ospf_step, AreaLoopVars>>
    /\ UNCHANGED nonOspfVars

\* Lines 42 and 187-190.
ProcessOspf ==
    /\ ospf_pc = "loop"
    /\ ospf_index < Len(ospf_router_before["ospf"])
    /\ AppliesTo(ospf_instance_type, CurrentOspf)
    /\ ospf_net_protocols' = Append(ospf_net_protocols, EmptyDict)
    /\ ospf_pc' = "process"
    /\ ospf_step' = 0
    /\ UNCHANGED <<OspfSource, ospf_earlier, ospf_router_leftover, ospf_intf_leftover, ospf_index,
                   AreaLoopVars>>
    /\ UNCHANGED nonOspfVars

\* What a step of process_ospf leaves: the structures as the step gave them, and the
\* next step, or the exception.
AfterStep(out, step) ==
    /\ ospf_router_leftover' =
          [ospf_router_leftover EXCEPT !["ospf"][ospf_index + 1] = out.ospf_leftover]
    /\ ospf_net_protocols' = out.net_protocols
    /\ ospf_pc' = IF out.raised THEN "raised" ELSE "process"
    /\ ospf_step' = IF out.raised THEN ospf_step ELSE step
    /\ UNCHANGED <<OspfSource, ospf_earlier, ospf_intf_leftover, ospf_index, AreaLoopVars>>
    /\ UNCHANGED nonOspfVars

SetNetworkConfig ==
    /\ ospf_pc = "process" /\ ospf_step = 0
    /\ \E out \in {set_network_config(CurrentLeftover, ospf_net_protocols, ProtIndex,
                                      CurrentOspf)} : AfterStep(out, 1)

SetOspf2GlobalConfig ==
    /\ ospf_pc = "process" /\ ospf_step = 1
    /\ \E out \in {set_ospf2_global_config(CurrentLeftover, ospf_net_protocols, ProtIndex,
                                           CurrentOspf)} : AfterStep(out, 2)

SetGracefulRestartIetf ==
    /\ ospf_pc = "process" /\ ospf_step = 2
    /\ \E out \in {set_graceful_restart_ietf(CurrentLeftover, ospf_net_protocols, ProtIndex,
                                             CurrentOspf)} : AfterStep(out, 3)

SetVrfLite ==
    /\ ospf_pc = "process" /\ ospf_step = 3
    /\ \E out \in {set_vrf_lite(CurrentLeftover, ospf_net_protocols, ProtIndex,
                                CurrentOspf)} : AfterStep(out, 4)

SetDefaultInfoOriginate ==
    /\ ospf_pc = "process" /\ ospf_step = 4
    /\ \E out \in {set_default_info_originate(CurrentLeftover, ospf_net_protocols, ProtIndex,
                                              CurrentOspf)} : AfterStep(out, 5)

\* check_areas, lines 318-322.
CheckAreasBegin ==
    /\ ospf_pc = "process" /\ ospf_step = 5
    /\ ospf_net_protocols' = get_ospfv2_area(ospf_net_protocols, ProtIndex)
    /\ IF GetInterfacesByAreaRaises(Get(CurrentOspf, "network", <<>>))
       THEN /\ ospf_pc' = "raised"
            /\ UNCHANGED AreaLoopVars
       ELSE /\ ospf_by_area' = get_interfaces_by_area(Get(CurrentOspf, "network", <<>>),
                                                      ospf_vrf_interfaces)
            /\ ospf_area_list' = populate_area_list(CurrentOspf)
            /\ ospf_area_0_present' = check_for_area_0(populate_area_list(CurrentOspf))
            /\ ospf_area_key' = 0
            /\ ospf_pc' = "check_areas"
    /\ UNCHANGED <<OspfSource, ospf_earlier, ospf_router_leftover, ospf_intf_leftover, ospf_index, ospf_step>>
    /\ UNCHANGED nonOspfVars

\* One area of the loop of lines 324-336.
CheckAreasLoop ==
    /\ ospf_pc = "check_areas"
    /\ ospf_area_key < Len(ospf_area_list)
    /\ \E out \in {CheckArea([ospf_leftover |-> CurrentLeftover,
                              intf_config_leftover |-> ospf_intf_leftover,
                              net_protocols |-> ospf_net_protocols],
                             ProtIndex, ospf_area_key, ospf_area_list[ospf_area_key + 1],
                             CurrentOspf, ospf_area_0_present, ospf_by_area)} :
          /\ ospf_router_leftover' =
                [ospf_router_leftover EXCEPT !["ospf"][ospf_index + 1] = out.ospf_leftover]
          /\ ospf_intf_leftover' = out.intf_config_leftover
          /\ ospf_net_protocols' = out.net_protocols
          /\ ospf_pc' = IF out.raised THEN "raised" ELSE "check_areas"
          /\ ospf_area_key' = IF out.raised THEN ospf_area_key ELSE ospf_area_key + 1
    /\ UNCHANGED <<OspfSource, ospf_earlier, ospf_index, ospf_step, ospf_area_list, ospf_area_0_present,
                   ospf_by_area>>
    /\ UNCHANGED nonOspfVars

\* check_areas returns.
CheckAreasEnd ==
    /\ ospf_pc = "check_areas"
    /\ ospf_area_key >= Len(ospf_area_list)
    /\ ospf_pc' = "process"
    /\ ospf_step' = 6
    /\ UNCHANGED <<OspfSource, ospf_earlier, ospf_router_leftover, ospf_intf_leftover, ospf_net_protocols,
                   ospf_index, AreaLoopVars>>
    /\ UNCHANGED nonOspfVars

SetMplsLdpSync ==
    /\ ospf_pc = "process" /\ ospf_step = 6
    /\ \E out \in {set_mpls_ldp_sync(CurrentLeftover, ospf_net_protocols, ProtIndex,
                                     CurrentOspf)} : AfterStep(out, 7)

SetTimersLsa ==
    /\ ospf_pc = "process" /\ ospf_step = 7
    /\ \E out \in {set_timers_lsa(CurrentLeftover, ospf_net_protocols, ProtIndex,
                                  CurrentOspf)} : AfterStep(out, 8)

SetTimersSpf ==
    /\ ospf_pc = "process" /\ ospf_step = 8
    /\ \E out \in {set_timers_spf(CurrentLeftover, ospf_net_protocols, ProtIndex,
                                  CurrentOspf)} : AfterStep(out, 9)

\* process_ospf returns to the loop of line 39.
NextOspfProcess ==
    /\ ospf_pc = "process" /\ ospf_step = 9
    /\ ospf_pc' = "loop"
    /\ ospf_index' = ospf_index + 1
    /\ UNCHANGED <<OspfSource, ospf_earlier, ospf_router_leftover, ospf_intf_leftover, ospf_net_protocols,
                   ospf_step, AreaLoopVars>>
    /\ UNCHANGED nonOspfVars

MaxInvocations == 2

\* The caller invokes configure_xe_ospf again, for another network instance, over the
\* same config_before / config_leftover pair.
InvokeAgain ==
    /\ ospf_pc = "returned"
    /\ Len(ospf_earlier) + 1 < MaxInvocations
    /\ ospf_earlier' =
          Append(ospf_earlier,
                 [instance_type |-> ospf_instance_type,
                  router_leftover |-> ospf_router_leftover,
                  intf_leftover |-> ospf_intf_leftover])
    /\ ospf_instance_type' \in InstanceTypes
    /\ ospf_net_protocols' \in ProtocolLists
    /\ ospf_pc' = "call"
    /\ ospf_index' = 0
    /\ ospf_step' = 0
    /\ UNCHANGED <<ospf_router_before, ospf_intf_before, ospf_vrf_interfaces,
                   ospf_router_leftover, ospf_intf_leftover, AreaLoopVars>>
    /\ UNCHANGED nonOspfVars

OspfNext ==
    \/ ReturnNoOspf \/ EnterLoop \/ ReturnFromConfigure \/ SkipOspf \/ ProcessOspf
    \/ SetNetworkConfig \/ SetOspf2GlobalConfig \/ SetGracefulRestartIetf \/ SetVrfLite
    \/ SetDefaultInfoOriginate \/ CheckAreasBegin \/ CheckAreasLoop \/ CheckAreasEnd
    \/ SetMplsLdpSync \/ SetTimersLsa \/ SetTimersSpf \/ NextOspfProcess

(***************************************************************************)
(* xe_bgp.py: programming the BGP neighbors and peer-groups of a service   *)
(* on an XE device.  The service is [global, neighbor, peer_group]: global *)
(* holds the AS under "as" when it is set, and a neighbor or peer-group is *)
(* a dict of the leaves that are set.  The device's router bgp is a dict   *)
(* from AS to [neighbor, neighbor_tag], each a dict from address or name   *)
(* to the dict of the leaves set on the device, named by their path.       *)
(***************************************************************************)
\* int(float(value)), for a decimal given in tenths.
IntOfFloat(tenths) == tenths \div 10

\* translation.openconfig_xe.common.xe_get_interface_type_and_number: the type and
\* the number of an interface name.
xe_get_interface_type_and_number(interface) == [type |-> interface[1], number |-> interface[2]]

\* Lines 81-87 and 151-157.
SetRemovePrivateAs(node, config) ==
    IF Has(config, "remove_private_as")
    THEN [k \in DOMAIN node \cup {"remove_private_as"}
                \cup (IF config["remove_private_as"] \in {"oc-bgp-types:PRIVATE_AS_REMOVE_ALL",
                                                          "oc-bgp-types:PRIVATE_AS_REPLACE_ALL"}
                      THEN {"remove_private_as.all"} ELSE {})
                \cup (IF config["remove_private_as"] = "oc-bgp-types:PRIVATE_AS_REPLACE_ALL"
                      THEN {"remove_private_as.replace_as"} ELSE {}) |->
            IF k \in {"remove_private_as", "remove_private_as.all",
                      "remove_private_as.replace_as"}
            THEN TRUE ELSE node[k]]
    ELSE node

\* Lines 88-95 and 158-165.
SetSendCommunity(node, config) ==
    IF Has(config, "send_community") /\ config["send_community"] # "NONE"
    THEN IF config["send_community"] \in {"STANDARD", "EXTENDED", "BOTH"}
         THEN Put(Put(node, "send_community", TRUE), "send_community.send_community_where",
                  CASE config["send_community"] = "STANDARD" -> "standard"
                    [] config["send_community"] = "EXTENDED" -> "extended"
                    [] config["send_community"] = "BOTH" -> "both")
         ELSE Put(node, "send_community", TRUE)
    ELSE node

\* Lines 96-99 and 166-169.
SetEbgpMultihop(node, service_node) ==
    IF Get(service_node, "multihop_enabled", FALSE) /\ Has(service_node, "multihop_ttl")
    THEN Put(Put(node, "ebgp_multihop", TRUE), "ebgp_multihop.max_hop",
             service_node["multihop_ttl"])
    ELSE node

\* Lines 100-104 and 170-174.
SetRouteReflector(node, service_node) ==
    Bind(IF Get(service_node, "route_reflector_client", FALSE)
         THEN Put(node, "route_reflector_client", TRUE) ELSE node, LAMBDA n :
        IF Has(service_node, "route_reflector_cluster_id")
        THEN Put(n, "cluster_id", service_node["route_reflector_cluster_id"])
        ELSE n)

\* Timers that are written whether or not the peer has a peer-group.
TimersAlways(service_node) == TRUE

\* Line 105: a neighbor's timers are skipped when it names a peer-group.
NoPeerGroup(service_node) == ~Has(service_node, "peer_group")

\* Lines 106-108 and 176-178.
SetBgpTimers(node, service_node) ==
    IF Has(service_node, "hold_time") /\ Has(service_node, "keepalive_interval")
    THEN Put(Put(node, "timers.holdtime", IntOfFloat(service_node["hold_time"])),
             "timers.keepalive_interval", IntOfFloat(service_node["keepalive_interval"]))
    ELSE node

\* Lines 109-119 and 179-189.
SetBgpTransport(node, service_node) ==
    Bind(IF ~Get(service_node, "mtu_discovery", FALSE)
         THEN Put(Put(node, "transport.path_mtu_discovery", TRUE),
                  "transport.path_mtu_discovery.disable", TRUE)
         ELSE Put(node, "transport.path_mtu_discovery", TRUE), LAMBDA n1 :
    Bind(IF Get(service_node, "passive_mode", FALSE)
         THEN Put(n1, "transport.connection_mode", "passive") ELSE n1, LAMBDA n2 :
        IF Has(service_node, "local_address")
        THEN Put(n2, "update_source",
                 Single(xe_get_interface_type_and_number(service_node["local_address"]).type,
                        xe_get_interface_type_and_number(service_node["local_address"]).number))
        ELSE n2))

\* Lines 68-73 and 142-147.
SetPeerConfig(node, config) ==
    Bind(IF Has(config, "peer_as") THEN Put(node, "remote_as", config["peer_as"]) ELSE node,
         LAMBDA n1 :
    Bind(IF Has(config, "auth_password")
         THEN Put(n1, "password.text", config["auth_password"]) ELSE n1, LAMBDA n2 :
        IF Has(config, "description") THEN Put(n2, "description", config["description"])
        ELSE n2))

\* Lines 76-78 and 148-150.
SetLocalAs(node, config) ==
    IF Has(config, "local_as")
    THEN Put(Put(node, "local_as", TRUE), "local_as.as_no", config["local_as"])
    ELSE node

\* Line 60: the neighbor is programmed.
IsNeighbor(service_bgp_neighbor) ==
    /\ Has(service_bgp_neighbor, "neighbor_address")
    /\ Has(service_bgp_neighbor, "peer_as") \/ Has(service_bgp_neighbor, "peer_group")

\* Lines 65-119: the device's neighbor after the service's neighbor is programmed.
ProgramNeighbor(neighbor, service_bgp_neighbor) ==
    Bind(SetPeerConfig(neighbor, service_bgp_neighbor), LAMBDA n1 :
    Bind(IF ~service_bgp_neighbor["enabled"] THEN Put(n1, "shutdown", TRUE) ELSE n1,
         LAMBDA n2 :
    Bind(SetLocalAs(n2, service_bgp_neighbor), LAMBDA n3 :
    Bind(IF Has(service_bgp_neighbor, "peer_group")
         THEN Put(n3, "peer_group", service_bgp_neighbor["peer_group"]) ELSE n3, LAMBDA n4 :
    Bind(SetRemovePrivateAs(n4, service_bgp_neighbor), LAMBDA n5 :
    Bind(SetSendCommunity(n5, service_bgp_neighbor), LAMBDA n6 :
    Bind(SetEbgpMultihop(n6, service_bgp_neighbor), LAMBDA n7 :
    Bind(SetRouteReflector(n7, service_bgp_neighbor), LAMBDA n8 :
    Bind(IF NoPeerGroup(service_bgp_neighbor) THEN SetBgpTimers(n8, service_bgp_neighbor)
         ELSE n8, LAMBDA n9 :
        SetBgpTransport(n9, service_bgp_neighbor))))))))))

\* Lines 136-189: the device's peer-group after the service's is programmed.
ProgramPeerGroup(peer_group, service_bgp_peergroup) ==
    Bind(SetPeerConfig(Put(peer_group, "peer_group", TRUE), service_bgp_peergroup),
         LAMBDA n1 :
    Bind(SetLocalAs(n1, service_bgp_peergroup), LAMBDA n2 :
    Bind(SetRemovePrivateAs(n2, service_bgp_peergroup), LAMBDA n3 :
    Bind(SetSendCommunity(n3, service_bgp_peergroup), LAMBDA n4 :
    Bind(SetEbgpMultihop(n4, service_bgp_peergroup), LAMBDA n5 :
    Bind(SetRouteReflector(n5, service_bgp_peergroup), LAMBDA n6 :
    Bind(SetBgpTimers(n6, service_bgp_peergroup), LAMBDA n7 :
        SetBgpTransport(n7, service_bgp_peergroup))))))))

\* Inputs: neighbors and peer-groups of the service.
NeighborShapes ==
    {Put(Single("neighbor_address", "10.1.1.1"), "peer_as", 65001),
     Put(Put(Put(Put(Single("neighbor_address", "10.1.1.2"), "peer_as", 65002),
                 "hold_time", 905), "keepalive_interval", 300), "description", "up"),
     Put(Put(Put(Single("neighbor_address", "10.1.1.3"), "peer_group", "PG1"),
             "hold_time", 900), "keepalive_interval", 300),
     Put(Put(Single("neighbor_address", "10.1.1.4"), "peer_as", 65004), "hold_time", 900),
     Put(Single("neighbor_address", "10.1.1.5"), "description", "no peer"),
     Put(Single("peer_as", 65006), "description", "no address"),
     Put(Put(Put(Put(Put(Put(Put(Put(Put(Put(Single("neighbor_address", "10.1.1.7"),
         "peer_as", 65007), "auth_password", "secret"), "local_as", 65100),
         "remove_private_as", "oc-bgp-types:PRIVATE_AS_REPLACE_ALL"),
         "send_community", "BOTH"), "multihop_enabled", TRUE), "multihop_ttl", 2),
         "route_reflector_client", TRUE), "mtu_discovery", TRUE),
         "local_address", <<"Loopback", 0>>)}

\* The enabled leaf of a neighbor
\* always has a value.
ServiceNeighbors ==
    {Put(n, "enabled", TRUE) : n \in NeighborShapes}
    \cup {Put(Put(Single("neighbor_address", "10.1.1.8"), "peer_as", 65008), "enabled", FALSE)}


ServicePeerGroups ==
    {Single("peer_group_name", "PG1"),
     Put(Put(Put(Single("peer_group_name", "PG2"), "peer_as", 65010), "hold_time", 905),
         "keepalive_interval", 300),
     Put(Put(Single("peer_group_name", "PG3"), "keepalive_interval", 300),
         "send_community", "NONE"),
     Put(Single("description", "no name"), "peer_as", 65011)}

MaxPeers == 2

BgpServices ==
    {[global |-> g, neighbor |-> n, peer_group |-> p] :
        g \in {EmptyDict, Single("as", 65000)},
        n \in SeqsUpTo(ServiceNeighbors, MaxPeers),
        p \in {<<>>} \cup {<<x>> : x \in ServicePeerGroups}}

\* A router bgp entry of the device.
DeviceBgpEntry(neighbors, tags) == [neighbor |-> neighbors, neighbor_tag |-> tags]

\* The device's router bgp before the service is programmed.
BgpDevices ==
    {EmptyDict,
     Single(65000, DeviceBgpEntry(EmptyDict, EmptyDict)),
     Single(65000, DeviceBgpEntry(Single("10.1.1.1", Single("description", "old")),
                                  Single("PG1", Single("peer_group", TRUE))))}

BgpInit ==
    /\ bgp_service \in BgpServices
    /\ bgp_device \in BgpDevices
    /\ bgp_function = "neighbors"
    /\ bgp_index = 0
    /\ bgp_pc = "call"

\* asn, lines 57 and 127; 0 stands for the None of an AS that is not set.
Asn == Get(bgp_service.global, "as", 0)

\* A test that takes every AS for set.
AsnAssumed(asn) == TRUE

\* "if asn:", lines 58 and 128.
AsnSet(asn) == asn # 0

\* Lines 57-59: asn is unset, or the loop is entered.
NeighborsBegin ==
    /\ bgp_pc = "call"
    /\ bgp_function = "neighbors"
    /\ bgp_pc' = IF AsnSet(Asn) THEN "loop" ELSE "returned"
    /\ bgp_index' = 0
    /\ UNCHANGED <<bgp_service, bgp_device, bgp_function>>
    /\ UNCHANGED nonBgpVars

\* One neighbor of the loop of line 59; bgp[asn] of a device without the AS raises.
ProgramServiceNeighbor ==
    /\ bgp_pc = "loop"
    /\ bgp_function = "neighbors"
    /\ bgp_index < Len(bgp_service.neighbor)
    /\ \E n \in {bgp_service.neighbor[bgp_index + 1]} :
          IF ~IsNeighbor(n)
          THEN /\ bgp_index' = bgp_index + 1
               /\ UNCHANGED <<bgp_device, bgp_pc>>
          ELSE IF ~Has(bgp_device, Asn)
          THEN /\ bgp_pc' = "raised"
               /\ UNCHANGED <<bgp_device, bgp_index>>
          ELSE /\ bgp_device' =
                    [bgp_device EXCEPT ![Asn].neighbor =
                        Put(@, n["neighbor_address"],
                            ProgramNeighbor(Get(@, n["neighbor_address"], EmptyDict), n))]
               /\ bgp_index' = bgp_index + 1
               /\ UNCHANGED bgp_pc
    /\ UNCHANGED <<bgp_service, bgp_function>>
    /\ UNCHANGED nonBgpVars

\* Lines 127-129.
PeergroupsBegin ==
    /\ bgp_pc = "call"
    /\ bgp_function = "peergroups"
    /\ bgp_pc' = IF AsnSet(Asn) THEN "loop" ELSE "returned"
    /\ bgp_index' = 0
    /\ UNCHANGED <<bgp_service, bgp_device, bgp_function>>
    /\ UNCHANGED nonBgpVars

\* One peer-group of the loop of line 129.
ProgramServicePeerGroup ==
    /\ bgp_pc = "loop"
    /\ bgp_function = "peergroups"
    /\ bgp_index < Len(bgp_service.peer_group)
    /\ \E p \in {bgp_service.peer_group[bgp_index + 1]} :
          IF ~Has(p, "peer_group_name")
          THEN /\ bgp_index' = bgp_index + 1
               /\ UNCHANGED <<bgp_device, bgp_pc>>
          ELSE IF ~Has(bgp_device, Asn)
          THEN /\ bgp_pc' = "raised"
               /\ UNCHANGED <<bgp_device, bgp_index>>
          ELSE /\ bgp_device' =
                    [bgp_device EXCEPT ![Asn].neighbor_tag =
                        Put(@, p["peer_group_name"],
                            ProgramPeerGroup(Get(@, p["peer_group_name"], EmptyDict), p))]
               /\ bgp_index' = bgp_index + 1
               /\ UNCHANGED bgp_pc
    /\ UNCHANGED <<bgp_service, bgp_function>>
    /\ UNCHANGED nonBgpVars

\* The loop of either function is exhausted.
BgpReturn ==
    /\ bgp_pc = "loop"
    /\ bgp_index >= Len(IF bgp_function = "neighbors" THEN bgp_service.neighbor
                        ELSE bgp_service.peer_group)
    /\ bgp_pc' = "returned"
    /\ UNCHANGED <<bgp_service, bgp_device, bgp_function, bgp_index>>
    /\ UNCHANGED nonBgpVars

\* The service goes on from the neighbors to the peer-groups.
CallPeergroups ==
    /\ bgp_pc = "returned"
    /\ bgp_function = "neighbors"
    /\ bgp_function' = "peergroups"
    /\ bgp_pc' = "call"
    /\ UNCHANGED <<bgp_service, bgp_device, bgp_index>>
    /\ UNCHANGED nonBgpVars

BgpNext ==
    \/ NeighborsBegin \/ ProgramServiceNeighbor \/ PeergroupsBegin \/ ProgramServicePeerGroup
    \/ BgpReturn \/ CallPeergroups

(***************************************************************************)
(* xr_main.py: check_xr_features.  The service is the record of what is    *)
(* configured of each feature family, in the order of the checks; the     *)
(* routing-policy entry is the result of is_oc_routing_policy_configured.  *)
(***************************************************************************)
XrChecks ==
    <<"interfaces", "stp", "acl_sets", "acl_interfaces", "acl_lines", "acl_ntp",
      "routing_policy", "network_instances">>

\* The NTP check ignores the peer ACL set.
IsConfiguredServerOnly(service, check) ==
    IF check = "acl_ntp" THEN service.ntp_server_acl_set ELSE service[check]

\* The condition of the check: lines 10, 13, 16, 18, 20, 22-23, 27 and 31.
IsConfigured(service, check) ==
    IF check = "acl_ntp" THEN service.ntp_server_acl_set \/ service.ntp_peer_acl_set
    ELSE service[check]

XrServices ==
    [{"interfaces", "stp", "acl_sets", "acl_interfaces", "acl_lines", "ntp_server_acl_set",
      "ntp_peer_acl_set", "routing_policy", "network_instances"} -> BOOLEAN]

XrInit ==
    /\ xr_service \in XrServices
    /\ xr_step = 0
    /\ xr_system_called = FALSE
    /\ xr_pc = "check"

\* One check of check_xr_features: raise NotImplementedError, or go on.
CheckXrFeature ==
    /\ xr_pc = "check"
    /\ xr_step < Len(XrChecks)
    /\ IF IsConfigured(xr_service, XrChecks[xr_step + 1])
       THEN xr_pc' = "raised" /\ UNCHANGED xr_step
       ELSE xr_step' = xr_step + 1 /\ UNCHANGED xr_pc
    /\ UNCHANGED <<xr_service, xr_system_called>>
    /\ UNCHANGED nonXrVars

\* Line 35.
XrSystemProgramService ==
    /\ xr_pc = "check"
    /\ xr_step >= Len(XrChecks)
    /\ xr_system_called' = TRUE
    /\ xr_pc' = "returned"
    /\ UNCHANGED <<xr_service, xr_step>>
    /\ UNCHANGED nonXrVars

XrNext == CheckXrFeature \/ XrSystemProgramService

(***************************************************************************)
(* Specifications.  Each runs one of the translators; the state of the     *)
(* others is idle.                                                         *)
(***************************************************************************)
BgpIdle ==
    /\ bgp_service = [global |-> EmptyDict, neighbor |-> <<>>, peer_group |-> <<>>]
    /\ bgp_device = EmptyDict
    /\ bgp_function = "neighbors"
    /\ bgp_index = 0
    /\ bgp_pc = "idle"

XrIdle ==
    /\ xr_service = [f \in {"interfaces"} |-> FALSE]
    /\ xr_step = 0
    /\ xr_system_called = FALSE
    /\ xr_pc = "idle"

OspfIdle ==
    /\ ospf_instance_type = "DEFAULT_INSTANCE"
    /\ ospf_router_before = EmptyDict
    /\ ospf_intf_before = EmptyDict
    /\ ospf_vrf_interfaces = <<>>
    /\ ospf_router_leftover = EmptyDict
    /\ ospf_intf_leftover = EmptyDict
    /\ ospf_net_protocols = <<>>
    /\ ospf_index = 0
    /\ ospf_step = 0
    /\ ospf_area_list = <<>>
    /\ ospf_area_key = 0
    /\ ospf_area_0_present = FALSE
    /\ ospf_by_area = EmptyDict
    /\ ospf_earlier = <<>>
    /\ ospf_pc = "idle"

GocIdle ==
    /\ goc_helper = "get_area_by_id"
    /\ goc_arg = 0
    /\ goc_tree = <<>>
    /\ goc_returned = <<>>
    /\ goc_stored = <<>>
    /\ goc_pc = "idle"

MergeIdle ==
    /\ merge_ip = <<>>
    /\ merge_mask = <<>>
    /\ merge_address = <<>>
    /\ merged_statement_ip = <<>>
    /\ merged_vrf_intf_ip = <<>>
    /\ merge_pc = "idle"

AlIdle ==
    /\ al_ospfv2_area = <<>>
    /\ al_requested = <<>>
    /\ al_returned = <<>>
    /\ al_appended = <<>>
    /\ al_pc = "idle"

AclIdle ==
    /\ config_before = EmptyDict
    /\ config_after = EmptyDict
    /\ openconfig_acls = EmptyDict
    /\ acls_notes = <<>>
    /\ pc = "idle"
    /\ acl_list = "standard"
    /\ acl_index = 0
    /\ rule_index = 0
    /\ acl_success = TRUE
    /\ emitted_from = <<>>
    /\ interfaces_by_acl = EmptyDict
    /\ acl_interfaces = <<>>
    /\ translation_notes = <<>>
    /\ earlier_calls = <<>>

BindIdle ==
    /\ network_statements = <<>>
    /\ vrf_interfaces = <<>>
    /\ sorted_network_statements = <<>>
    /\ stmt_index = 0
    /\ processed_interfaces = {}
    /\ interfaces_by_area = EmptyDict
    /\ bind_pc = "idle"

\* The ACL pass.
Init ==
    AclInit /\ BindIdle /\ MergeIdle /\ GocIdle /\ OspfIdle /\ BgpIdle /\ XrIdle /\ AlIdle

Next == AclNext

Spec == Init /\ [][Next]_vars

\* The ACL pass for several devices in one process.
InitMain == Init /\ config_before \in Devices

NextMain == AclNext \/ MainAgain

SpecMain == InitMain /\ [][NextMain]_vars

\* get_interfaces_by_area.
InitBind ==
    BindInit /\ AclIdle /\ MergeIdle /\ GocIdle /\ OspfIdle /\ BgpIdle /\ XrIdle /\ AlIdle

NextBind == BindNext

SpecBind == InitBind /\ [][NextBind]_vars

\* The match test.
InitMerge ==
    MergeInit /\ AclIdle /\ BindIdle /\ GocIdle /\ OspfIdle /\ BgpIdle /\ XrIdle /\ AlIdle

NextMerge == MergeNext

SpecMerge == InitMerge /\ [][NextMerge]_vars

\* A caller of a get-or-create helper.
InitGoc ==
    GocInit /\ AclIdle /\ BindIdle /\ MergeIdle /\ OspfIdle /\ BgpIdle /\ XrIdle /\ AlIdle

NextGoc == GocNext

SpecGoc == InitGoc /\ [][NextGoc]_vars

\* configure_xe_ospf.
InitOspf ==
    OspfInit /\ AclIdle /\ BindIdle /\ MergeIdle /\ GocIdle /\ BgpIdle /\ XrIdle /\ AlIdle

NextOspf == OspfNext

SpecOspf == InitOspf /\ [][NextOspf]_vars

\* configure_xe_ospf, invoked once per network instance.
NextOspfInstances == OspfNext \/ InvokeAgain

SpecOspfInstances == InitOspf /\ [][NextOspfInstances]_vars

\* The BGP program services.
InitBgp ==
    BgpInit /\ AclIdle /\ BindIdle /\ MergeIdle /\ GocIdle /\ OspfIdle /\ XrIdle
    /\ AlIdle

NextBgp == BgpNext

SpecBgp == InitBgp /\ [][NextBgp]_vars

\* check_xr_features.
InitXr ==
    XrInit /\ AclIdle /\ BindIdle /\ MergeIdle /\ GocIdle /\ OspfIdle /\ BgpIdle
    /\ AlIdle

NextXr == XrNext

SpecXr == InitXr /\ [][NextXr]_vars

\* A caller of get_area_by_id.
InitAl ==
    AlInit /\ AclIdle /\ BindIdle /\ MergeIdle /\ GocIdle /\ OspfIdle /\ BgpIdle /\ XrIdle

NextAl == AlNext

SpecAl == InitAl /\ [][NextAl]_vars

\* A translation pass over a device: the ACL pass or the OSPF pass.
InitPass == Init \/ InitOspf

NextPass == Next \/ NextOspf

SpecPass == InitPass /\ [][NextPass]_vars

(***************************************************************************)
(* Properties of the ACL pass.                                             *)
(***************************************************************************)
\* All named ACLs of a configuration, in the order xe_acls visits them.
AllAcls(config) == config.standard \o config.extended

AclListOf(k) == IF k <= Len(config_before.standard) THEN "standard" ELSE "extended"

RulesOfAcl(config, k) == AllAcls(config)[k][RuleListKey(AclType(AclListOf(k)))]

RuleParts(k, i) == RulesOfAcl(config_before, k)[i].rule

\* The number of ACLs whose process_acl has been called.
StartedAcls == Len(emitted_from)

\* The number of ACLs whose process_acl has returned.
ReturnedAcls ==
    IF pc \in {"begin", "idle"} THEN 0
    ELSE IF acl_list = "standard" THEN acl_index
    ELSE Len(config_before.standard) + acl_index

\* process_acl has ended for ACL k: it returned, or an exception left it.
AclEnded(k) == k <= ReturnedAcls \/ (k = StartedAcls /\ pc = "raised")

\* The rules of ACL k that __set_rule_parts has been called on.
RulesTried(k) ==
    IF k <= ReturnedAcls THEN Len(RulesOfAcl(config_before, k))
    ELSE IF k = StartedAcls THEN rule_index + (IF pc = "raised" THEN 1 ELSE 0)
    ELSE 0

\* Rule i (1-based) of ACL k was appended to the acl-entry list of the k-th acl-set.
Emitted(k, i) ==
    /\ k <= StartedAcls
    /\ \E j \in 1..Len(emitted_from[k]) : emitted_from[k][j] = i - 1

EntryOf(k, i) ==
    EntriesOf(OcAclSet[k])[CHOOSE j \in 1..Len(emitted_from[k]) : emitted_from[k][j] = i - 1]

IsUnknownProtocol(rule_parts) ==
    /\ Len(rule_parts) >= 3
    /\ At(rule_parts, 2).k \notin (DOMAIN protocols_oc_to_xe) \cup {"ip"}

\* The entries process_acl emits for a rule list, the rules in skip left out.
RECURSIVE EntriesFor(_, _, _, _)
EntriesFor(acl_type, name, rules, n) ==
    IF n = 0 THEN <<>>
    ELSE LET r == SetRuleParts(acl_type, name, rules[n].rule, <<>>)
         IN IF IsUnknownProtocol(rules[n].rule) \/ ~r.emitted
            THEN EntriesFor(acl_type, name, rules, n - 1)
            ELSE Append(EntriesFor(acl_type, name, rules, n - 1), r.entry)

\* C1 (as claimed): a rule of an extended ACL with an unknown protocol aborts only
\* itself: the pass ends without raising, and the output holds, for every ACL, the
\* entries of its other rules, as if the failing rule were absent.
C1_UnknownProtocolAbortsOnlyItsRule ==
    (/\ pc \in {"done", "raised"}
     /\ \E k \in 1..Len(AllAcls(config_before)) :
           /\ AclListOf(k) = "extended"
           /\ \E i \in 1..Len(RulesOfAcl(config_before, k)) : IsUnknownProtocol(RuleParts(k, i)))
    => /\ pc = "done"
       /\ Len(OcAclSet) = Len(AllAcls(config_before))
       /\ \A k \in 1..Len(AllAcls(config_before)) :
             EntriesOf(OcAclSet[k]) =
                EntriesFor(AclType(AclListOf(k)), AllAcls(config_before)[k].name,
                           RulesOfAcl(config_before, k), Len(RulesOfAcl(config_before, k)))

\* C2: once process_acl has ended for an ACL, "name" is absent from the ACL's leftover
\* entry exactly when every rule of the ACL was appended to the output acl-entry list.
C2_NameDeletedIffAllRulesTranslated ==
    \A k \in 1..Len(AllAcls(config_before)) :
        /\ AclEnded(k) =>
              (~Has(AllAcls(config_after)[k], "name")
                 <=> \A i \in 1..Len(RulesOfAcl(config_before, k)) : Emitted(k, i))
        /\ ~AclEnded(k) => Has(AllAcls(config_after)[k], "name")

C2_Witness ==
    /\ pc = "done"
    /\ \E k \in 1..Len(AllAcls(config_before)) :
          /\ Len(RulesOfAcl(config_before, k)) = 2
          /\ ~Has(AllAcls(config_after)[k], "name")
    /\ \E k \in 1..Len(AllAcls(config_before)) :
          /\ Len(RulesOfAcl(config_before, k)) = 2
          /\ Emitted(k, 1) /\ ~Emitted(k, 2)
          /\ Has(AllAcls(config_after)[k], "name")

\* C3: for every rule index of every ACL, the leftover rule is null exactly when the
\* source rule was emitted as an entry of the ACL's acl-set (the entry carries the
\* rule's sequence id); the leftover rule list keeps the length of the source list,
\* and a rule that was not emitted keeps its source value.
C3_LeftoverRuleNullIffEmitted ==
    \A k \in 1..Len(AllAcls(config_before)) :
        /\ Len(RulesOfAcl(config_after, k)) = Len(RulesOfAcl(config_before, k))
        /\ k <= StartedAcls => Len(EntriesOf(OcAclSet[k])) = Len(emitted_from[k])
        /\ \A i \in 1..Len(RulesOfAcl(config_before, k)) :
              IF Emitted(k, i)
              THEN /\ RulesOfAcl(config_after, k)[i] = None
                   /\ EntryOf(k, i)["openconfig-acl:sequence-id"] = IntOf(RuleParts(k, i)[1])
              ELSE RulesOfAcl(config_after, k)[i] = RulesOfAcl(config_before, k)[i]

C3_Witness ==
    /\ pc = "done"
    /\ \E k \in 1..Len(AllAcls(config_before)) :
          /\ Len(RulesOfAcl(config_before, k)) = 2
          /\ ~Emitted(k, 1) /\ Emitted(k, 2)
          /\ RulesOfAcl(config_after, k)[1] = RulesOfAcl(config_before, k)[1]
          /\ RulesOfAcl(config_after, k)[2] = None

\* C4 (as claimed): every rule that __set_rule_parts was called on and that was not
\* emitted has a note naming it in the notes list, and is non-null in leftover.
C4_FailedRuleHasNote ==
    \A k \in 1..StartedAcls :
        \A i \in 1..RulesTried(k) :
            ~Emitted(k, i) =>
                /\ RulesOfAcl(config_after, k)[i] # None
                /\ \E n \in 1..Len(acls_notes) :
                      /\ acls_notes[n].acl = AllAcls(config_before)[k].name
                      /\ acls_notes[n].entry = RuleParts(k, i)

\* A configuration with one ACL holding one rule.
SingleRule ==
    /\ Len(AllAcls(config_before)) = 1
    /\ Len(RulesOfAcl(config_before, 1)) = 1

TheRule == RuleParts(1, 1)

TheEntry == EntriesOf(OcAclSet[1])[1]

TransportOf(entry) == entry["openconfig-acl:transport"]["openconfig-acl:config"]

Ipv4Of(entry, acl_type) == entry[Ipv4Key(acl_type)][ConfigKey(acl_type)]

LogActionOf(entry) ==
    entry["openconfig-acl:actions"]["openconfig-acl:config"]["openconfig-acl:log-action"]

\* The port specs with a numeric port, and what the port translation table gives.
NumericPortSpecs == {spec \in PortSpecs : \A i \in 2..Len(spec) : IsDigit(spec[i])}

IsNeq(spec) == spec # <<>> /\ spec[1].k = "neq"

ExpectedPort(spec) ==
    IF spec = <<>> THEN PortAny
    ELSE CASE spec[1].k = "eq" -> PortInt(IntOf(spec[2]))
           [] spec[1].k = "range" -> PortRange(spec[2], spec[3])
           [] spec[1].k = "lt" -> PortRange(Num(0), Num(IntOf(spec[2]) - 1))
           [] spec[1].k = "gt" -> PortRange(Num(IntOf(spec[2]) + 1), Num(MaxPort))

\* C5 (as claimed): in a tcp rule the source and the destination port spec are each
\* translated by the table eq / range / lt / gt / none, and a neq on either side makes
\* the rule fail: a note, no entry, the rule untouched in leftover.
C5_PortSpecTranslatedOnBothSides ==
    (pc = "done" /\ SingleRule /\ AclListOf(1) = "extended") =>
        \A src \in {<<Kw("any")>>, <<Kw("host"), HostAddr>>}, sport \in NumericPortSpecs,
           dst \in AddrSpecsBrief, dport \in NumericPortSpecs,
           flag \in FlagSpecs, log \in LogSpecs :
            TheRule = <<Num(10), Kw("permit"), Kw("tcp")>>
                         \o src \o sport \o dst \o dport \o flag \o log
            => IF IsNeq(sport) \/ IsNeq(dport)
               THEN /\ ~Emitted(1, 1)
                    /\ Len(acls_notes) = 1 /\ acls_notes[1].entry = TheRule
                    /\ RulesOfAcl(config_after, 1)[1] = RulesOfAcl(config_before, 1)[1]
               ELSE /\ Emitted(1, 1)
                    /\ TransportOf(TheEntry)["openconfig-acl:source-port"] = ExpectedPort(sport)
                    /\ TransportOf(TheEntry)["openconfig-acl:destination-port"]
                          = ExpectedPort(dport)

\* A wildcard mask: zero bits followed by one bits.
RECURSIVE TrailingOnes(_)
TrailingOnes(bits) ==
    IF bits = <<>> THEN 0
    ELSE IF bits[Len(bits)] = 0 THEN 0
    ELSE 1 + TrailingOnes(SubSeq(bits, 1, Len(bits) - 1))

IsContiguousWildcard(mask) ==
    LET bits == get_binary_str(mask.v)
    IN \A i \in 1..(Len(bits) - TrailingOnes(bits)) : bits[i] = 0

ExpectedAddress(spec) ==
    IF spec[1].k = "any" THEN Cidr(Ip(0, 0, 0, 0), 0)
    ELSE IF spec[1].k = "host" THEN Cidr(spec[2], 32)
    ELSE Cidr(spec[1], 32 - TrailingOnes(get_binary_str(spec[2].v)))

WildcardAddrSpecs ==
    {spec \in AddrSpecs : spec[1].k = "#addr" => IsContiguousWildcard(spec[2])}

\* C6 (as claimed): any -> 0.0.0.0/0, host <ip> -> <ip>/32, <ip> <wildcard> -> <ip>/n
\* with n = 32 minus the trailing one-bits of the wildcard, for the source address
\* (standard rules) and the destination address (extended ip rules) alike.
C6_AddressSpecToCidr ==
    (pc = "done" /\ SingleRule) =>
        /\ \A a \in {"permit", "deny"}, src \in WildcardAddrSpecs, log \in LogSpecs :
              (AclListOf(1) = "standard" /\ TheRule = <<Num(10), Kw(a)>> \o src \o log)
              => /\ Emitted(1, 1)
                 /\ Ipv4Of(TheEntry, ACL_STD_TYPE)[SrcAddrKey(ACL_STD_TYPE)]
                       = ExpectedAddress(src)
        /\ \A src \in AddrSpecsBrief, dst \in WildcardAddrSpecs, log \in LogSpecs :
              (/\ AclListOf(1) = "extended"
               /\ TheRule = <<Num(10), Kw("permit"), Kw("ip")>> \o src \o dst \o log)
              => /\ Emitted(1, 1)
                 /\ Ipv4Of(TheEntry, ACL_EXT_TYPE)[SrcAddrKey(ACL_EXT_TYPE)]
                       = ExpectedAddress(src)
                 /\ Ipv4Of(TheEntry, ACL_EXT_TYPE)[DstAddrKey] = ExpectedAddress(dst)

\* C7 (as claimed): an emitted entry has log-action LOG_SYSLOG when the last token of
\* its rule is log-input, and LOG_NONE otherwise.
C7_LogActionFollowsTrailingToken ==
    (pc = "done" /\ SingleRule /\ Emitted(1, 1)) =>
        LogActionOf(TheEntry) =
            (IF TheRule[Len(TheRule)].k = "log-input" THEN "LOG_SYSLOG" ELSE "LOG_NONE")

\* The configuration of the end-to-end scenario: the standard ACL "10" with the one
\* rule "10 permit 10.0.0.0 0.255.255.255".
ScenarioConfig ==
    ConfigOf(<<"standard">>, <<<<<<Num(10), Kw("permit"), NetAddr, Ip(0, 255, 255, 255)>>>>>>)

\* The scenario's outcome, for a given prefix length of the source address.
ScenarioOutcome(prefixlen) ==
    /\ pc = "done"
    /\ Len(OcAclSet) = 1
    /\ OcAclSet[1]["openconfig-acl:type"] = ACL_STD_TYPE
    /\ OcAclSet[1]["openconfig-acl:name"] = 10
    /\ Len(EntriesOf(OcAclSet[1])) = 1
    /\ TheEntry["openconfig-acl:sequence-id"] = 10
    /\ TheEntry["openconfig-acl:actions"]["openconfig-acl:config"]
               ["openconfig-acl:forwarding-action"] = "ACCEPT"
    /\ Ipv4Of(TheEntry, ACL_STD_TYPE)[SrcAddrKey(ACL_STD_TYPE)] = Cidr(NetAddr, prefixlen)
    /\ ~Has(TheEntry, "openconfig-acl:transport")
    /\ LogActionOf(TheEntry) = "LOG_NONE"
    /\ ~Has(config_after.standard[1], "name")

PassEnded == pc \in {"done", "raised"}

\* C8 (as claimed): the scenario yields source-address 10.0.0.0/24.
C8_ScenarioAsClaimed ==
    (config_before = ScenarioConfig /\ PassEnded) => ScenarioOutcome(24)

\* C8 (amended): translating the scenario configuration ends with exactly one acl-set,
\* of type ACL_IPV4_STANDARD, holding one entry with sequence-id 10, forwarding-action
\* ACCEPT, source-address 10.0.0.0/8 and log-action LOG_NONE, and with 'name' removed
\* from the ACL's leftover entry.
C8_ScenarioOutcome ==
    (config_before = ScenarioConfig /\ PassEnded) => ScenarioOutcome(8)

C8_Witness == config_before = ScenarioConfig /\ pc = "done"

(***************************************************************************)
(* Properties of get_interfaces_by_area.                                   *)
(***************************************************************************)
StmtArea(net_stmt) == Get(net_stmt, "area", AreaStr(0))

\* The places (area, position) where an interface stands in interfaces_by_area.
BoundAt(vrf_intf) ==
    {place \in UNION {{<<area, j>> : j \in 1..Len(interfaces_by_area[area])} :
                        area \in DOMAIN interfaces_by_area} :
        interfaces_by_area[place[1]][place[2]] = vrf_intf}

\* The statements processed so far, by position in sorted order, that match an interface.
MatchingProcessed(vrf_intf) ==
    {i \in 1..stmt_index : Matches(sorted_network_statements[i], vrf_intf)}

FirstOf(S) == CHOOSE i \in S : \A j \in S : i <= j

\* C9: every VRF interface stands in at most one area list, at most once; it is bound
\* exactly when some processed statement matches it, and then to the area of the first
\* matching statement in sorted order, whatever later statements match it.
C9_FirstMatchingStatementWins ==
    \A n \in 1..Len(vrf_interfaces) :
        LET vrf_intf == vrf_interfaces[n]
            matching == MatchingProcessed(vrf_intf)
        IN /\ Cardinality(BoundAt(vrf_intf)) <= 1
           /\ IF matching = {}
              THEN BoundAt(vrf_intf) = {}
              ELSE \E place \in BoundAt(vrf_intf) :
                      place[1] = StmtArea(sorted_network_statements[FirstOf(matching)])

C9_Witness ==
    /\ bind_pc = "returned"
    /\ \E n \in 1..Len(vrf_interfaces) :
          \E i, j \in MatchingProcessed(vrf_interfaces[n]) :
              /\ i = FirstOf(MatchingProcessed(vrf_interfaces[n]))
              /\ i < j
              /\ StmtArea(sorted_network_statements[i]) # StmtArea(sorted_network_statements[j])
              /\ BoundAt(vrf_interfaces[n]) # {}

HasMask(net_stmt) == Has(net_stmt, "mask") /\ net_stmt.mask # <<>>

\* mask1 is below mask2, octet by octet from the left.
LexLess(mask1, mask2) ==
    \E i \in 1..4 : mask1[i] < mask2[i] /\ \A j \in 1..(i - 1) : mask1[j] = mask2[j]

\* stmt1 is strictly before stmt2 in the order of processing.
Before(stmt1, stmt2) ==
    HasMask(stmt1) /\ (HasMask(stmt2) => LexLess(stmt1.mask, stmt2.mask))

Sign(n) == IF n < 0 THEN -1 ELSE IF n > 0 THEN 1 ELSE 0

Statements == {network_statements[i] : i \in 1..Len(network_statements)}

\* C10: the statements are processed in ascending order of mask, octet by octet, a
\* statement with no mask after every statement that has one, statements with equal
\* masks in input order; and sort_by_mask is antisymmetric in sign and transitive, and
\* negative exactly for a statement that is before the other in that order.
C10_SortedByMaskStable ==
    /\ bind_pc \in {"loop", "returned", "raised"} =>
          \E p \in [1..Len(network_statements) -> 1..Len(network_statements)] :
              /\ \A i, j \in DOMAIN p : p[i] = p[j] => i = j
              /\ Len(sorted_network_statements) = Len(network_statements)
              /\ \A i \in DOMAIN p : sorted_network_statements[i] = network_statements[p[i]]
              /\ \A i, j \in DOMAIN p :
                    i < j => /\ ~Before(sorted_network_statements[j],
                                        sorted_network_statements[i])
                             /\ ~Before(sorted_network_statements[i],
                                        sorted_network_statements[j]) => p[i] < p[j]
    /\ \A stmt1, stmt2 \in Statements :
          /\ Sign(sort_by_mask(stmt1, stmt2)) = -Sign(sort_by_mask(stmt2, stmt1))
          /\ sort_by_mask(stmt1, stmt2) < 0 <=> Before(stmt1, stmt2)
          /\ \A stmt3 \in Statements :
                (sort_by_mask(stmt1, stmt2) <= 0 /\ sort_by_mask(stmt2, stmt3) <= 0)
                => sort_by_mask(stmt1, stmt3) <= 0

C10_Witness ==
    /\ bind_pc = "loop"
    /\ Len(network_statements) = 3
    /\ sorted_network_statements # network_statements
    /\ ~HasMask(network_statements[1])
    /\ HasMask(network_statements[2]) /\ HasMask(network_statements[3])
    /\ network_statements[2] # network_statements[3]
    /\ network_statements[2].mask = network_statements[3].mask
    /\ sorted_network_statements =
          <<network_statements[2], network_statements[3], network_statements[1]>>

(***************************************************************************)
(* Properties of the match test.                                           *)
(***************************************************************************)
\* Bit i (1 = most significant) of a dotted quad.
BitOf(octets, i) == (octets[((i - 1) \div 8) + 1] \div (2 ^ (7 - ((i - 1) % 8)))) % 2

AgreeWhereMaskIsZero ==
    \A i \in 1..32 : BitOf(merge_mask, i) = 0 => BitOf(merge_ip, i) = BitOf(merge_address, i)

\* C11: the merged statement ip equals the merged interface address exactly when ip
\* and address agree on every bit where the wildcard mask bit is 0.
C11_MatchIffAgreeOnZeroMaskBits ==
    merge_pc = "merged" =>
        /\ Len(merged_statement_ip) = 32 /\ Len(merged_vrf_intf_ip) = 32
        /\ (merged_statement_ip = merged_vrf_intf_ip) <=> AgreeWhereMaskIsZero

C11_Witness ==
    /\ merge_pc = "merged"
    /\ merge_ip # merge_address
    /\ \E i, j \in 1..32 : BitOf(merge_mask, i) = 0 /\ BitOf(merge_mask, j) = 1
    /\ merged_statement_ip = merged_vrf_intf_ip

(***************************************************************************)
(* Statements without a mask.                                              *)
(***************************************************************************)
WithMask(stmts) == SelectSeq(stmts, HasMask)

\* C12 (as claimed): with a statement that has no 'mask' key in the list, the call
\* does not raise, and it returns the binding that the statements with a mask give
\* without it, extended by what the mask-less statement binds last.
C12_MaskLessStatementBindsLast ==
    (\E i \in 1..Len(network_statements) : ~Has(network_statements[i], "mask")) =>
        /\ bind_pc # "raised"
        /\ bind_pc = "returned" =>
              \A area \in DOMAIN BindAll(Sorted(WithMask(network_statements)),
                                         Len(WithMask(network_statements)),
                                         vrf_interfaces).by_area :
                  /\ area \in DOMAIN interfaces_by_area
                  /\ \A j \in 1..Len(BindAll(Sorted(WithMask(network_statements)),
                                             Len(WithMask(network_statements)),
                                             vrf_interfaces).by_area[area]) :
                        interfaces_by_area[area][j] =
                            BindAll(Sorted(WithMask(network_statements)),
                                    Len(WithMask(network_statements)),
                                    vrf_interfaces).by_area[area][j]

(***************************************************************************)
(* Properties of the get-or-create helpers.                                *)
(***************************************************************************)
\* C13 (as claimed): every helper, called a second time with the same arguments,
\* returns the node of the first call with everything stored in it since, and leaves
\* the destination structure as it was before the second call.
C13_GetOrCreateIdempotent ==
    goc_pc = "done" =>
        /\ goc_returned[2] = goc_stored[2]
        /\ goc_tree = goc_stored[1]

(***************************************************************************)
(* Properties of configure_xe_ospf.                                        *)
(***************************************************************************)
\* C14: a step of configure_xe_ospf changes the protocol list or the leftover tree
\* only while it translates a process of the source's OSPF list, and that process
\* has a 'vrf' key when the instance type is L3VRF and has none when it is
\* DEFAULT_INSTANCE; so for any other type, and without an OSPF list, neither the
\* protocol list nor the leftover tree ever changes.
C14_ProcessAppliesToInstanceType ==
    [][(\/ ospf_net_protocols' # ospf_net_protocols
        \/ ospf_router_leftover' # ospf_router_leftover
        \/ ospf_intf_leftover' # ospf_intf_leftover)
        => /\ Has(ospf_router_before, "ospf")
           /\ ospf_index < Len(ospf_router_before["ospf"])
           /\ \/ ospf_instance_type = "L3VRF" /\ Has(CurrentOspf, "vrf")
              \/ ospf_instance_type = "DEFAULT_INSTANCE" /\ ~Has(CurrentOspf, "vrf")]_vars

\* The second process of a list is translated into an L3VRF instance after the
\* first, which has no 'vrf' key, was passed over.
C14_Witness ==
    /\ ospf_instance_type = "L3VRF"
    /\ ospf_pc = "process"
    /\ ospf_index = 1
    /\ ~Has(ospf_router_before["ospf"][1], "vrf")
    /\ ospf_router_leftover["ospf"][1] = ospf_router_before["ospf"][1]
    /\ Len(ospf_net_protocols) > 0

(***************************************************************************)
(* Properties of check_areas.  The areas of the current process that the   *)
(* loop of line 324 is done with are the first AreasDone of ospf_area_list. *)
(***************************************************************************)
InAreas == ospf_pc = "check_areas" \/ (ospf_pc = "process" /\ ospf_step >= 6)

AreasDone == IF ~InAreas THEN 0
             ELSE IF ospf_pc = "check_areas" THEN ospf_area_key ELSE Len(ospf_area_list)

\* The output area of an id.
OutputArea(area_id) ==
    AreaListNode(ospf_net_protocols, ProtIndex)
        [AreaPos(AreaListNode(ospf_net_protocols, ProtIndex), area_id)]

StubEnabled(output_area, option) ==
    output_area["openconfig-ospfv2-ext:stub-options"][option]
               ["openconfig-ospfv2-ext:config"]["openconfig-ospfv2-ext:enabled"]

StubOptionNames ==
    {"openconfig-ospfv2-ext:totally-stubby", "openconfig-ospfv2-ext:stub",
     "openconfig-ospfv2-ext:nssa"}

\* Exactly the given option is enabled in the output area.
OnlyEnabled(output_area, option) ==
    \A o \in StubOptionNames : StubEnabled(output_area, o) <=> (o = option)

\* C15: an area with 'stub' holding 'no-summary' comes out with totally-stubby
\* enabled and stub and NSSA disabled; with 'stub' alone, with stub enabled and the
\* other two disabled; with 'nssa' (and no 'stub'), with NSSA enabled, its no-summary
\* true exactly when 'no-summary' is in the nssa block, and the other two disabled.
\* No output area has more than one option enabled, an area with both 'stub' and
\* 'nssa' included.
C15_StubOptionsFollowArea ==
    \A k \in 1..AreasDone :
        LET area == ospf_area_list[k]
            output_area == OutputArea(area["id"])
        IN /\ (Has(area, "stub") /\ Has(area["stub"], "no-summary"))
                => OnlyEnabled(output_area, "openconfig-ospfv2-ext:totally-stubby")
           /\ (Has(area, "stub") /\ ~Has(area["stub"], "no-summary"))
                => OnlyEnabled(output_area, "openconfig-ospfv2-ext:stub")
           /\ (Has(area, "nssa") /\ ~Has(area, "stub"))
                => /\ OnlyEnabled(output_area, "openconfig-ospfv2-ext:nssa")
                   /\ output_area["openconfig-ospfv2-ext:stub-options"]
                                 ["openconfig-ospfv2-ext:nssa"]["openconfig-ospfv2-ext:config"]
                                 ["openconfig-ospfv2-ext:no-summary"]
                        = Has(area["nssa"], "no-summary")
           /\ Has(output_area, "openconfig-ospfv2-ext:stub-options")
                => Cardinality({o \in StubOptionNames : StubEnabled(output_area, o)}) <= 1

\* An area with both 'stub' and 'nssa' has been translated: it came out as a stub
\* area, and its 'stub' key has left the leftover.
C15_Witness ==
    \E k \in 1..AreasDone :
        /\ Has(ospf_area_list[k], "stub") /\ Has(ospf_area_list[k], "nssa")
        /\ OnlyEnabled(OutputArea(ospf_area_list[k]["id"]), "openconfig-ospfv2-ext:stub")
        /\ ~Has(CurrentLeftover["area"][k], "stub")

\* The inter-area propagation policies of the current process's output.
Policies ==
    IF HasPath(ospf_net_protocols[ProtIndex + 1], <<Ospfv2Key, GlobalKey, PoliciesKey, PolicyKey>>)
    THEN GlobalNode(ospf_net_protocols, ProtIndex)[PoliciesKey][PolicyKey]
    ELSE <<>>

\* The policy is the one of an area of the list that the loop is done with.
PolicyOfArea(policy, area) ==
    /\ Has(area, "filter-list") /\ Len(area["filter-list"]) = 1
    /\ policy["openconfig-network-instance:dst-area"] = area["id"]
    /\ policy[NiConfigKey]["openconfig-network-instance:dst-area"] = area["id"]
    /\ policy[NiConfigKey]["openconfig-network-instance:import-policy"]
          = <<area["filter-list"][1]["prefix"]>>

\* C16: every inter-area propagation policy in the output of a process is the
\* policy of an area of the process's area list whose id is not 0, in a list that
\* holds area 0 (before or after that area): its src-area is 0, its dst-area is the
\* area's id, its import-policy is the area's single filter-list prefix, and its
\* dst-area is never 0.
C16_PolicyOnlyWithArea0 ==
    InAreas =>
        \A p \in 1..Len(Policies) :
            /\ \E z \in 1..Len(ospf_area_list) : IntOfArea(ospf_area_list[z]["id"]) = 0
            /\ Policies[p]["openconfig-network-instance:src-area"] = AreaInt(0)
            /\ Policies[p][NiConfigKey]["openconfig-network-instance:src-area"] = AreaInt(0)
            /\ IntOfArea(Policies[p]["openconfig-network-instance:dst-area"]) # 0
            /\ \E k \in 1..AreasDone :
                  /\ IntOfArea(ospf_area_list[k]["id"]) # 0
                  /\ PolicyOfArea(Policies[p], ospf_area_list[k])

\* A policy was emitted for an area that stands before area 0 in the list.
C16_Witness ==
    /\ InAreas
    /\ Len(Policies) = 1
    /\ \E k \in 1..AreasDone :
          /\ PolicyOfArea(Policies[1], ospf_area_list[k])
          /\ \E z \in (k + 1)..Len(ospf_area_list) : ospf_area_list[z]["id"] = AreaInt(0)

(***************************************************************************)
(* Properties of the throttle timers.                                      *)
(***************************************************************************)
\* A process of the list is being translated (or its translation has raised).
InProcess == ospf_pc \in {"process", "check_areas", "raised"}

ThrottleGroups == {"lsa", "spf"}

GroupFieldsOf(group) ==
    {ThrottleFields(group).start, ThrottleFields(group).hold, ThrottleFields(group).max}

HasGroup(ospf, group) == HasPath(ospf, <<"timers", "throttle", group>>)

PartialGroup(ospf, group) ==
    /\ HasGroup(ospf, group)
    /\ GroupFieldsOf(group) \cap DOMAIN ospf["timers"]["throttle"][group] # {}
    /\ ~(GroupFieldsOf(group) \subseteq DOMAIN ospf["timers"]["throttle"][group])

FullGroup(ospf, group) ==
    /\ HasGroup(ospf, group)
    /\ GroupFieldsOf(group) \subseteq DOMAIN ospf["timers"]["throttle"][group]

\* The number of steps of process_ospf that are done once the group's step is.
StepAfter(group) == IF group = "lsa" THEN 8 ELSE 9

\* The timer values of the group in the output of the current process.
HasWrittenGroup(group) ==
    HasPath(ospf_net_protocols[ProtIndex + 1],
            <<Ospfv2Key, GlobalKey, TimersKey, ThrottleOcKey(group)>>)

WrittenGroup(group) ==
    GlobalNode(ospf_net_protocols, ProtIndex)[TimersKey][ThrottleOcKey(group)][NiConfigKey]

\* C18: the translation of a process with a timer group that has some but not all
\* of its three sub-fields never gets past the group's step (the step raises, and
\* the process is never completed), no value of the group is ever written to the
\* output and the group stays in the leftover as it was in the source; once the
\* step of a group with all three sub-fields is done, the three values are in the
\* output and the group is gone from the leftover.
C18_TimerGroupAllOrError ==
    /\ \A i \in 1..(IF Has(ospf_router_before, "ospf") /\ ospf_pc # "call"
                    THEN ospf_index ELSE 0) :
          AppliesTo(ospf_instance_type, ospf_router_before["ospf"][i])
            => \A group \in ThrottleGroups :
                  ~PartialGroup(ospf_router_before["ospf"][i], group)
    /\ InProcess =>
        \A group \in ThrottleGroups :
            /\ PartialGroup(CurrentOspf, group) =>
                  /\ ~(ospf_pc = "process" /\ ospf_step >= StepAfter(group))
                  /\ ~HasWrittenGroup(group)
                  /\ HasGroup(CurrentLeftover, group)
                  /\ CurrentLeftover["timers"]["throttle"][group]
                        = CurrentOspf["timers"]["throttle"][group]
            /\ (FullGroup(CurrentOspf, group)
                    /\ ospf_pc = "process" /\ ospf_step >= StepAfter(group)) =>
                  /\ HasWrittenGroup(group)
                  /\ WrittenGroup(group) =
                        ThrottleConfig(group, CurrentOspf["timers"]["throttle"][group])
                  /\ ~HasGroup(CurrentLeftover, group)

\* The lsa group of a process was written and deleted from the leftover, and the
\* partial spf group of the same process then raised.
C18_Witness ==
    /\ ospf_pc = "raised"
    /\ ospf_step = 8
    /\ FullGroup(CurrentOspf, "lsa")
    /\ PartialGroup(CurrentOspf, "spf")
    /\ HasWrittenGroup("lsa")
    /\ ~HasGroup(CurrentLeftover, "lsa")
    /\ HasGroup(CurrentLeftover, "spf")

(***************************************************************************)
(* The leftover tree against the source tree, for the ACL pass and the     *)
(* OSPF pass.  A leftover dict is pruned from its source dict when its     *)
(* keys are keys of the source and each holds the source's value or, down  *)
(* to the given depth, a dict pruned from the source's; a leftover list is *)
(* the source list with entries replaced by None (or, for dicts, pruned).  *)
(***************************************************************************)
RECURSIVE DictPruned(_, _, _)
DictPruned(left, source, depth) ==
    /\ DOMAIN left \subseteq DOMAIN source
    /\ \A k \in DOMAIN left :
          \/ left[k] = source[k]
          \/ depth > 0 /\ DictPruned(left[k], source[k], depth - 1)

\* A list whose entries are the source's or None.
ListNulled(left, source) ==
    /\ Len(left) = Len(source)
    /\ \A i \in 1..Len(left) : left[i] = None \/ left[i] = source[i]

AclPruned(left, source, acl_type) ==
    /\ DOMAIN left \subseteq DOMAIN source
    /\ Has(left, "name") => left["name"] = source["name"]
    /\ Has(left, RuleListKey(acl_type))
          => ListNulled(left[RuleListKey(acl_type)], source[RuleListKey(acl_type)])

AclLeftoverPruned ==
    pc # "idle" =>
        /\ config_after.vty = config_before.vty
        /\ \A list \in {"standard", "extended"} :
              /\ Len(NamedAcls(config_after, list)) = Len(NamedAcls(config_before, list))
              /\ \A i \in 1..Len(NamedAcls(config_after, list)) :
                    AclPruned(NamedAcls(config_after, list)[i],
                              NamedAcls(config_before, list)[i], AclType(list))

AreaPruned(left, source) ==
    /\ DOMAIN left \subseteq DOMAIN source
    /\ \A k \in DOMAIN left :
          IF k = "virtual-link" THEN ListNulled(left[k], source[k])
          ELSE left[k] = source[k]

MplsPruned(left, source) ==
    /\ DOMAIN left \subseteq DOMAIN source
    /\ \A k \in DOMAIN left :
          IF k = "traffic-eng"
          THEN /\ DOMAIN left[k] \subseteq DOMAIN source[k]
               /\ \A j \in DOMAIN left[k] :
                     IF j = "area" THEN ListNulled(left[k][j], source[k][j])
                     ELSE left[k][j] = source[k][j]
          ELSE DictPruned(left[k], source[k], 1)

ProcessPruned(left, source) ==
    /\ DOMAIN left \subseteq DOMAIN source
    /\ \A k \in DOMAIN left :
          CASE k = "area" ->
                  /\ Len(left[k]) = Len(source[k])
                  /\ \A i \in 1..Len(left[k]) : AreaPruned(left[k][i], source[k][i])
            [] k = "neighbor" -> ListNulled(left[k], source[k])
            [] k = "mpls" -> MplsPruned(left[k], source[k])
            [] k \in {"timers", "default-information", "nsf-ietf"} ->
                  DictPruned(left[k], source[k], 2)
            [] OTHER -> left[k] = source[k]

OspfLeftoverPruned ==
    /\ DOMAIN ospf_router_leftover = DOMAIN ospf_router_before
    /\ \A k \in DOMAIN ospf_router_leftover :
          IF k = "ospf"
          THEN /\ Len(ospf_router_leftover[k]) = Len(ospf_router_before[k])
               /\ \A i \in 1..Len(ospf_router_leftover[k]) :
                     ProcessPruned(ospf_router_leftover[k][i], ospf_router_before[k][i])
          ELSE ospf_router_leftover[k] = ospf_router_before[k]
    /\ DOMAIN ospf_intf_leftover = DOMAIN ospf_intf_before
    /\ \A type \in DOMAIN ospf_intf_leftover :
          /\ Len(ospf_intf_leftover[type]) = Len(ospf_intf_before[type])
          /\ \A i \in 1..Len(ospf_intf_leftover[type]) :
                DictPruned(ospf_intf_leftover[type][i], ospf_intf_before[type][i], 2)

C17_NoAsnNoChange ==
    /\ [](~Has(bgp_service.global, "as") => bgp_pc # "raised")
    /\ [][~Has(bgp_service.global, "as") => bgp_device' = bgp_device]_vars

\* Both program services have returned for a service without an AS that lists a
\* neighbor with an address and a peer AS and a peer-group with a name, on a device
\* that has BGP configured.
C17_Witness ==
    /\ ~Has(bgp_service.global, "as")
    /\ bgp_function = "peergroups"
    /\ bgp_pc = "returned"
    /\ \E i \in 1..Len(bgp_service.neighbor) : IsNeighbor(bgp_service.neighbor[i])
    /\ \E i \in 1..Len(bgp_service.peer_group) :
          Has(bgp_service.peer_group[i], "peer_group_name")
    /\ bgp_device # EmptyDict

(***************************************************************************)
(* Properties of check_xr_features.                                        *)
(***************************************************************************)
\* Some feature family that XR does not support is configured on the service.
AnyFamilyConfigured == \E family \in DOMAIN xr_service : xr_service[family]

\* C19: xr_system_program_service is called only with none of the unsupported
\* feature families configured, and check_xr_features ends with it called exactly
\* when none is; when a family is configured, check_xr_features raises, and
\* xr_system_program_service has not been called then.
C19_SystemOnlyWithoutUnsupported ==
    xr_pc # "idle" =>
        /\ xr_system_called => ~AnyFamilyConfigured /\ xr_pc = "returned"
        /\ xr_pc = "raised" => AnyFamilyConfigured /\ ~xr_system_called
        /\ xr_pc = "returned" => xr_system_called
        /\ AnyFamilyConfigured => xr_pc \in {"check", "raised"}

\* check_xr_features has raised at the NTP check for a service whose only
\* unsupported family is the NTP peer ACL set.
C19_Witness ==
    /\ xr_pc = "raised"
    /\ xr_service.ntp_peer_acl_set
    /\ \A family \in DOMAIN xr_service \ {"ntp_peer_acl_set"} : ~xr_service[family]
    /\ ~xr_system_called

(***************************************************************************)
(* Properties of the rule cursor and of the emitted port ranges.           *)
(***************************************************************************)
\* The source port specs that name a port: eq, range, lt, gt with numeric ports.
SourcePortSpecs == {spec \in NumericPortSpecs : spec # <<>> /\ ~IsNeq(spec)}

\* C24 (as claimed): in a tcp rule "<src> <src-port-spec> <dst> ..." the destination
\* spec is read from the token that follows the source port spec (two tokens after
\* eq / lt / gt, three after range): the entry is emitted with the source port of the
\* port spec and the destination address of the destination spec.
C24_TokensConsumedLeftToRight ==
    (pc = "done" /\ SingleRule /\ AclListOf(1) = "extended") =>
        \A src \in {<<Kw("any")>>, <<Kw("host"), HostAddr>>}, sport \in SourcePortSpecs,
           dst \in AddrSpecsBrief, log \in LogSpecs :
            TheRule = <<Num(10), Kw("permit"), Kw("tcp")>> \o src \o sport \o dst \o log
            => /\ Emitted(1, 1)
               /\ TransportOf(TheEntry)["openconfig-acl:source-port"] = ExpectedPort(sport)
               /\ Ipv4Of(TheEntry, ACL_EXT_TYPE)[DstAddrKey] = ExpectedAddress(dst)

\* The port ranges of an emitted entry.
PortRangesOf(entry) ==
    IF ~Has(entry, "openconfig-acl:transport") THEN {}
    ELSE {TransportOf(entry)[key] :
            key \in {k \in {PortKey(TRUE), PortKey(FALSE)} :
                        /\ Has(TransportOf(entry), k)
                        /\ TransportOf(entry)[k].kind = "range"}}

HasRangeOperator(rule_parts) ==
    \E t \in 1..Len(rule_parts) : rule_parts[t] = Kw("range")

\* C28 (as claimed): every port range emitted for "lt p" or "gt p" is "low..high"
\* with 0 <= low <= high <= 65535, the ports 0 and 65535 included.
C28_LtGtRangesValid ==
    \A k \in 1..Len(OcAclSet) :
        \A j \in 1..Len(EntriesOf(OcAclSet[k])) :
            ~HasRangeOperator(RuleParts(k, emitted_from[k][j] + 1)) =>
                \A range \in PortRangesOf(EntriesOf(OcAclSet[k])[j]) :
                    /\ 0 <= IntOf(range.lo)
                    /\ IntOf(range.lo) <= IntOf(range.hi)
                    /\ IntOf(range.hi) <= MaxPort

(***************************************************************************)
(* Properties of a sequence of get_area_by_id calls.                       *)
(***************************************************************************)
\* The identifiers requested so far, each once, in the order of their first request.
RECURSIVE FirstRequests(_)
FirstRequests(requested) ==
    IF requested = <<>> THEN <<>>
    ELSE LET before == FirstRequests(SubSeq(requested, 1, Len(requested) - 1))
             area_id == requested[Len(requested)]
         IN IF \E i \in 1..Len(before) : before[i] = area_id
            THEN before ELSE Append(before, area_id)

\* C25: after any sequence of get_area_by_id calls on one area list, the entries of
\* the list are the identifiers requested, each in exactly one entry and in the order
\* of their first request; a call for an identifier that was already requested
\* appended nothing and returned the entry of that identifier.
C25_AreaListUniqueInFirstRequestOrder ==
    /\ Len(al_ospfv2_area) = Len(FirstRequests(al_requested))
    /\ \A i \in 1..Len(al_ospfv2_area) :
          al_ospfv2_area[i][IdentifierKey] = FirstRequests(al_requested)[i]
    /\ \A n \in 1..Len(al_requested) :
          /\ al_ospfv2_area[al_returned[n]][IdentifierKey] = al_requested[n]
          /\ al_appended[n] <=> ~\E m \in 1..(n - 1) : al_requested[m] = al_requested[n]

\* Four calls, the third and the fourth for identifiers requested before, with an
\* entry the caller has filled: the list holds two entries.
C25_Witness ==
    /\ al_requested = <<AreaInt(1), AreaStr(0), AreaInt(1), AreaStr(0)>>
    /\ al_appended = <<TRUE, TRUE, FALSE, FALSE>>
    /\ Len(al_ospfv2_area) = 2
    /\ Has(al_ospfv2_area[1], "openconfig-network-instance:mpls")

(***************************************************************************)
(* Properties of the interfaces of the output areas.                       *)
(***************************************************************************)
\* The loop of check_areas has run over the whole area list of the current process.
AreaLoopDone == ospf_pc = "process" /\ ospf_step >= 6

\* The output areas of the current process, and the interface ids of one of them.
OutputAreas == AreaListNode(ospf_net_protocols, ProtIndex)

InterfaceIdsOf(output_area) ==
    IF HasPath(output_area, <<InterfacesKey, InterfaceKey>>)
    THEN [i \in 1..Len(output_area[InterfacesKey][InterfaceKey]) |->
            output_area[InterfacesKey][InterfaceKey][i]["openconfig-network-instance:id"]]
    ELSE <<>>

\* How often the interface stands in the interface list of the output area.
Occurrences(output_area, intf_name) ==
    Cardinality({i \in 1..Len(InterfaceIdsOf(output_area)) :
                    InterfaceIdsOf(output_area)[i] = intf_name})

\* C26 (as claimed): in the output of a process, every interface bound by
\* get_interfaces_by_area stands exactly once in the interface list of the output
\* area of its area id, and in the interface list of no other output area.
C26_BoundInterfaceOnceInItsArea ==
    AreaLoopDone =>
        \A area_id \in DOMAIN ospf_by_area :
            \A n \in 1..Len(ospf_by_area[area_id]) :
                \A a \in 1..Len(OutputAreas) :
                    Occurrences(OutputAreas[a], FullIntfName(ospf_by_area[area_id][n]))
                       = IF OutputAreas[a][IdentifierKey] = area_id THEN 1 ELSE 0

\* The current process has a network statement without an 'area' key.
HasStatementWithoutArea ==
    \E n \in 1..Len(Get(CurrentOspf, "network", <<>>)) : ~Has(CurrentOspf["network"][n], "area")

\* C29 (as claimed): a network statement without an 'area' key belongs to the
\* backbone area: the output of its process holds one area 0 entry, the interfaces
\* the statement binds stand in it, and the area counts as area 0 for the gate of the
\* inter-area propagation policy, so that every other area of the list with a single
\* filter-list gets its policy.
C29_DefaultAreaIsBackbone ==
    (AreaLoopDone /\ HasStatementWithoutArea) =>
        /\ Cardinality({a \in 1..Len(OutputAreas) :
                           IntOfArea(OutputAreas[a][IdentifierKey]) = 0}) = 1
        /\ ospf_area_0_present
        /\ \A k \in 1..Len(ospf_area_list) :
              (/\ IntOfArea(ospf_area_list[k]["id"]) # 0
               /\ Has(ospf_area_list[k], "filter-list")
               /\ Len(ospf_area_list[k]["filter-list"]) = 1)
              => \E p \in 1..Len(Policies) : PolicyOfArea(Policies[p], ospf_area_list[k])

(***************************************************************************)
(* Properties of repeated invocations of configure_xe_ospf.                *)
(***************************************************************************)
\* The process at index (1-based) was selected by the earlier invocation.
SelectedBy(earlier, index) ==
    AppliesTo(earlier.instance_type, ospf_router_before["ospf"][index])

\* C27 (as claimed): an invocation of configure_xe_ospf that follows another over
\* the same source/leftover pair does not raise, whatever the two instance types;
\* when it has returned, every process an earlier invocation selected stands in the
\* leftover as that invocation left it.
C27_InvocationsDoNotRaise ==
    ospf_earlier # <<>> =>
        /\ ospf_pc # "raised"
        /\ (ospf_pc = "returned" /\ Has(ospf_router_before, "ospf")) =>
              \A index \in 1..Len(ospf_router_before["ospf"]) :
                  SelectedBy(ospf_earlier[1], index) =>
                      ospf_router_leftover["ospf"][index]
                         = ospf_earlier[1].router_leftover["ospf"][index]

(***************************************************************************)
(* Properties of the neighbors and peer-groups the BGP services program.   *)
(***************************************************************************)
TimerLeaves == {"timers.holdtime", "timers.keepalive_interval"}

\* The leaves of the names that are set on a device node.
LeavesOf(node, names) == [k \in names \cap DOMAIN node |-> node[k]]

BothTimersSet(service_node) ==
    Has(service_node, "hold_time") /\ Has(service_node, "keepalive_interval")

TimersWritten(node, service_node) ==
    /\ Has(node, "timers.holdtime") /\ Has(node, "timers.keepalive_interval")
    /\ node["timers.holdtime"] = service_node["hold_time"] \div 10
    /\ node["timers.keepalive_interval"] = service_node["keepalive_interval"] \div 10

\* The list of device nodes after is the list before with the node of key
\* programmed: no other node is created or changed, and the timers of the node are
\* written when timed holds and left as they were otherwise.
ProgrammedAsClaimed(before, after, key, service_node, timed) ==
    /\ DOMAIN after = DOMAIN before \cup {key}
    /\ \A other \in DOMAIN before \ {key} : after[other] = before[other]
    /\ IF timed THEN TimersWritten(after[key], service_node)
       ELSE LeavesOf(after[key], TimerLeaves)
               = LeavesOf(Get(before, key, EmptyDict), TimerLeaves)

\* C30: with the global AS set, a step of the neighbors service creates or changes a
\* device neighbor only for a service neighbor with an address and a peer AS or a
\* peer-group, and writes its hold time and keepalive only if it names no
\* peer-group and has both timer values; a step of the peer-groups service creates
\* or changes a device peer-group only for a peer-group with a name, and writes its
\* timers whenever it has both values.  Any other step leaves the device unchanged.
C30_NeighborsAndTimersAsClaimed ==
    [][(AsnSet(Asn) /\ bgp_pc = "loop" /\ bgp_index' = bgp_index + 1) =>
         IF bgp_function = "neighbors"
         THEN LET n == bgp_service.neighbor[bgp_index + 1]
              IN IF Has(n, "neighbor_address") /\ (Has(n, "peer_as") \/ Has(n, "peer_group"))
                 THEN /\ DOMAIN bgp_device' = DOMAIN bgp_device
                      /\ bgp_device'[Asn].neighbor_tag = bgp_device[Asn].neighbor_tag
                      /\ ProgrammedAsClaimed(bgp_device[Asn].neighbor,
                                             bgp_device'[Asn].neighbor,
                                             n["neighbor_address"], n,
                                             ~Has(n, "peer_group") /\ BothTimersSet(n))
                 ELSE bgp_device' = bgp_device
         ELSE LET p == bgp_service.peer_group[bgp_index + 1]
              IN IF Has(p, "peer_group_name")
                 THEN /\ DOMAIN bgp_device' = DOMAIN bgp_device
                      /\ bgp_device'[Asn].neighbor = bgp_device[Asn].neighbor
                      /\ ProgrammedAsClaimed(bgp_device[Asn].neighbor_tag,
                                             bgp_device'[Asn].neighbor_tag,
                                             p["peer_group_name"], p, BothTimersSet(p))
                 ELSE bgp_device' = bgp_device]_vars

\* The neighbors service has returned after a neighbor with a peer AS and both timer
\* values and a neighbor with a peer-group reference and both timer values: the
\* first has its timers on the device, the second has none.
C30_Witness ==
    /\ bgp_pc = "returned"
    /\ bgp_function = "neighbors"
    /\ AsnSet(Asn)
    /\ Len(bgp_service.neighbor) = 2
    /\ Get(bgp_service.neighbor[1], "neighbor_address", "") = "10.1.1.2"
    /\ Get(bgp_service.neighbor[2], "neighbor_address", "") = "10.1.1.3"
    /\ BothTimersSet(bgp_service.neighbor[2]) /\ Has(bgp_service.neighbor[2], "peer_group")
    /\ TimersWritten(bgp_device[Asn].neighbor["10.1.1.2"], bgp_service.neighbor[1])
    /\ Has(bgp_device[Asn].neighbor, "10.1.1.3")
    /\ LeavesOf(bgp_device[Asn].neighbor["10.1.1.3"], TimerLeaves) = EmptyDict

(***************************************************************************)
(* Properties of the interface access-groups in the ACL pass.              *)
(***************************************************************************)
OcAclInterface == openconfig_acls["openconfig-acl:interface"]

\* The access-groups of the source that are gone from the leftover tree, each as the
\* index of its interface and its index in the access-group list of the interface.
RemovedAccessGroups ==
    UNION {{<<i, g>> : g \in 1..Len(config_before.interface[i]["ip"]["access-group"])} :
              i \in {i \in 1..Len(config_before.interface) :
                        /\ HasAccessGroup(config_before.interface[i])
                        /\ ~HasPath(config_after.interface[i], <<"ip", "access-group">>)}}

\* The output tree has the interface with the ACL in the list of the direction.
InOutput(interface, access_group) ==
    \E k \in 1..Len(OcAclInterface) :
        /\ OcAclInterface[k]["openconfig-acl:id"] = <<InterfaceType>> \o interface["name"]
        /\ HasPath(OcAclInterface[k],
                   <<AclSetsKey(access_group["direction"]), AclSetKey(access_group["direction"])>>)
        /\ \E j \in 1..Len(IntfAclSetNode(OcAclInterface[k], access_group["direction"])) :
              IntfAclSetNode(OcAclInterface[k], access_group["direction"])[j]
                  ["openconfig-acl:set-name"] = access_group["access-list"]

AccessGroupInOutput(ig) ==
    InOutput(config_before.interface[ig[1]],
             config_before.interface[ig[1]]["ip"]["access-group"][ig[2]])

\* C21: when the ACL pass has ended, every interface access-group that is gone from
\* the leftover tree is in the output tree, as an entry of the ingress or egress
\* acl-set list of its interface, whether or not the ACL it names is configured.
C21_RemovedAccessGroupsAreInOutput ==
    pc = "done" => \A ig \in RemovedAccessGroups : AccessGroupInOutput(ig)

\* C22: in every state of the ACL pass, an interface access-group that is gone from
\* the leftover tree is already in the output tree.
C22_AccessGroupWrittenBeforeRemoved ==
    \A ig \in RemovedAccessGroups : AccessGroupInOutput(ig)

(***************************************************************************)
(* Properties of main called for several devices in one process.           *)
(***************************************************************************)
IsPrefix(p, s) == Len(p) <= Len(s) /\ SubSeq(s, 1, Len(p)) = p

NamesOfSets(acl_sets) == [i \in 1..Len(acl_sets) |-> acl_sets[i]["openconfig-acl:name"]]

NamesOfAcls(config) == [i \in 1..Len(AllAcls(config)) |-> AllAcls(config)[i]["name"]]

IdsOf(interfaces) == {interfaces[i]["openconfig-acl:id"] : i \in 1..Len(interfaces)}

\* The ids of the interfaces of a device with an access-group that names one of its
\* named ACLs.
BoundIds(config) ==
    {<<InterfaceType>> \o config.interface[i]["name"] :
        i \in {i \in 1..Len(config.interface) :
                 /\ HasAccessGroup(config.interface[i])
                 /\ \E g \in 1..Len(config.interface[i]["ip"]["access-group"]) :
                       \E k \in 1..Len(AllAcls(config)) :
                          AllAcls(config)[k]["name"] =
                             config.interface[i]["ip"]["access-group"][g]["access-list"]}}

\* The names of the named ACLs of the devices of the first n calls, in call order.
RECURSIVE EarlierAclNames(_)
EarlierAclNames(n) ==
    IF n = 0 THEN <<>>
    ELSE EarlierAclNames(n - 1) \o NamesOfAcls(earlier_calls[n].before)

EarlierBoundIds == UNION {BoundIds(earlier_calls[n].before) : n \in 1..Len(earlier_calls)}

\* C23: when main has returned for a device B after it returned for a device A, the
\* acl-set list of the tree is the list returned for A followed by one acl-set per
\* named ACL of B, its interface list is the list returned for A followed by one
\* entry per bound interface of B, and the notes list handed to the call for B
\* begins with the notes of A.
C23_SecondCallAggregates ==
    (pc = "done" /\ earlier_calls # <<>>) =>
        LET first == earlier_calls[Len(earlier_calls)]
            sets_a == first.returned["openconfig-acl:acl-set"]
            intf_a == first.returned["openconfig-acl:interface"]
            intf_b == SubSeq(OcAclInterface, Len(intf_a) + 1, Len(OcAclInterface))
        IN /\ IsPrefix(sets_a, OcAclSet)
           /\ NamesOfSets(sets_a) = EarlierAclNames(Len(earlier_calls))
           /\ NamesOfSets(OcAclSet) = NamesOfSets(sets_a) \o NamesOfAcls(config_before)
           /\ IsPrefix(intf_a, OcAclInterface)
           /\ IdsOf(intf_a) = EarlierBoundIds
           /\ IdsOf(intf_b) = BoundIds(config_before)
           /\ Len(intf_b) = Cardinality(BoundIds(config_before))
           /\ IsPrefix(first.notes, translation_notes)
           /\ translation_notes = acls_notes

\* main has returned for a second device: the first had a named ACL, a bound
\* interface and a note, and the second has a named ACL and a bound interface.
C23_Witness ==
    /\ pc = "done"
    /\ Len(earlier_calls) = 1
    /\ earlier_calls[1].returned["openconfig-acl:acl-set"] # <<>>
    /\ earlier_calls[1].returned["openconfig-acl:interface"] # <<>>
    /\ earlier_calls[1].notes # <<>>
    /\ Len(OcAclSet) > Len(earlier_calls[1].returned["openconfig-acl:acl-set"])
    /\ Len(OcAclInterface) > Len(earlier_calls[1].returned["openconfig-acl:interface"])
    /\ Len(translation_notes) >= Len(earlier_calls[1].notes)

====
